---------------------------- MODULE Spec2Model ----------------------------
(***************************************************************************)
(* A model of the NMEA GPS parser: checksum verification, sentence         *)
(* classification, $GPRMC field parsing, temporal and spatial              *)
(* deduplication, and the per-line loop of the orchestrator.               *)
(*                                                                         *)
(* A std::string is a sequence of one-character strings; positions are     *)
(* 1-based here (the C++ index plus one) and 0 stands for npos.            *)
(***************************************************************************)
EXTENDS Integers, Sequences, FiniteSets, TLC

\* ------------------------------------------------------------------------
\* Bounds of the model
\* ------------------------------------------------------------------------

\* Longest line handed to verify_checksum in SpecChecksum.
MaxLen == 6

\* Longest record list handed to the dedup functions in SpecDedup.
MaxRecs == 3

\* Most non-blank lines read by one run of main, over all files, in Spec.
MaxLines == 3

\* Most file arguments of one run of main in Spec.
MaxFiles == 2

\* The longest line handed to is_not_relevant on its own.
MaxIdLen == 8

\* The most fields of a sentence handed to parse_gprmc on its own.
MaxSentenceFields == 9

\* The longest coordinate handed to nmea_to_decimal on its own.
MaxCoordLen == 9

\* ------------------------------------------------------------------------
\* Characters
\* ------------------------------------------------------------------------

\* The byte value of every character the model's inputs are made of.
Ord ==
    [c \in {" ", "$", "*", "+", ",", "-", "."} |->
        CASE c = " " -> 32 [] c = "$" -> 36 [] c = "*" -> 42 [] c = "+" -> 43
          [] c = "," -> 44 [] c = "-" -> 45 [] c = "." -> 46]
    @@ [c \in {"0", "1", "2", "3", "4", "5", "6", "7", "8", "9"} |->
        CASE c = "0" -> 48 [] c = "1" -> 49 [] c = "2" -> 50 [] c = "3" -> 51
          [] c = "4" -> 52 [] c = "5" -> 53 [] c = "6" -> 54 [] c = "7" -> 55
          [] c = "8" -> 56 [] c = "9" -> 57]
    @@ [c \in {"A", "B", "C", "D", "E", "F", "G", "M", "N", "P", "R", "S",
               "T", "V", "W", "Z"} |->
        CASE c = "A" -> 65 [] c = "B" -> 66 [] c = "C" -> 67 [] c = "D" -> 68
          [] c = "E" -> 69 [] c = "F" -> 70 [] c = "G" -> 71 [] c = "M" -> 77
          [] c = "N" -> 78 [] c = "P" -> 80 [] c = "R" -> 82 [] c = "S" -> 83
          [] c = "T" -> 84 [] c = "V" -> 86 [] c = "W" -> 87 [] c = "Z" -> 90]
    @@ [c \in {"a", "f", "\r"} |->
        CASE c = "a" -> 97 [] c = "f" -> 102 [] c = "\r" -> 13]

kNmeaStart       == "$"
kNmeaChecksumSep == "*"
kNmeaFieldDelim  == ","
kChecksumHexLen  == 2

\* isspace() of the C locale, over the characters of the model.
IsSpace(c) == c \in {" ", "\r"}

\* isxdigit().
IsHexDigit(c) ==
    c \in {"0", "1", "2", "3", "4", "5", "6", "7", "8", "9",
           "A", "B", "C", "D", "E", "F", "a", "f"}

\* The value of a hexadecimal digit as strtoul reads it.
HexDigitValue(c) ==
    IF Ord[c] >= 97 THEN Ord[c] - 87
    ELSE IF Ord[c] >= 65 THEN Ord[c] - 55
    ELSE Ord[c] - 48

\* ------------------------------------------------------------------------
\* std::string helpers
\* ------------------------------------------------------------------------

\* s.find(c): the first position of c in s, 0 (npos) when absent.
RECURSIVE find_from(_, _, _)
find_from(s, c, start) ==
    IF start > Len(s) THEN 0
    ELSE IF s[start] = c THEN start
    ELSE find_from(s, c, start + 1)

find(s, c) == find_from(s, c, 1)

\* s.rfind(c): the last position of c in s, 0 (npos) when absent.
RECURSIVE rfind_from(_, _, _)
rfind_from(s, c, pos) ==
    IF pos = 0 THEN 0
    ELSE IF s[pos] = c THEN pos
    ELSE rfind_from(s, c, pos - 1)

rfind(s, c) == rfind_from(s, c, Len(s))

\* The characters of s at positions from..to (empty when from > to).
Slice(s, from, to) == [k \in 1..(to - from + 1) |-> s[from + k - 1]]

\* ------------------------------------------------------------------------
\* verify_checksum
\* ------------------------------------------------------------------------

\* Bit k of the byte b.
BitOf(b, k) == (b \div (2 ^ k)) % 2

\* The loop `for (i = 1; i < star; ++i) computed ^= sentence[i]` over the
\* positions first..star-1 (C++ indices first-1..star-2), computed starting
\* at 0: bit k of the result is set exactly when an odd number of those
\* bytes have bit k set.
xor_loop(sentence, first, star) ==
    LET odd(k) ==
            Cardinality({i \in first..(star - 1) :
                            BitOf(Ord[sentence[i]], k) = 1}) % 2
    IN  odd(0) + 2 * odd(1) + 4 * odd(2) + 8 * odd(3)
        + 16 * odd(4) + 32 * odd(5) + 64 * odd(6) + 128 * odd(7)

\* sscanf(p, "%02X", &expected) on the characters of s from position pos:
\* white space is skipped without counting against the field width, then at
\* most two characters are read as an optional sign followed by hexadecimal
\* digits.  The result is <<n, value>> with n the return value of sscanf
\* (1 on a conversion, 0 on a matching failure, -1 at the end of the input)
\* and value the integer read; the unsigned the code stores is that integer
\* modulo 2^32, so its uint8_t cast is the integer modulo 2^8.
RECURSIVE skip_space(_, _)
skip_space(s, pos) ==
    IF pos <= Len(s) /\ IsSpace(s[pos]) THEN skip_space(s, pos + 1) ELSE pos

sscanf_02X(s, pos) ==
    LET p  == skip_space(s, pos)
        c1 == IF p <= Len(s) THEN s[p] ELSE ""
        c2 == IF p + 1 <= Len(s) THEN s[p + 1] ELSE ""
    IN  IF c1 = "" THEN <<-1, 0>>
        ELSE IF c1 \in {"+", "-"} THEN
            IF c2 # "" /\ IsHexDigit(c2)
            THEN <<1, IF c1 = "-" THEN 0 - HexDigitValue(c2)
                                    ELSE HexDigitValue(c2)>>
            ELSE <<0, 0>>
        ELSE IF IsHexDigit(c1) THEN
            IF c2 # "" /\ IsHexDigit(c2)
            THEN <<1, 16 * HexDigitValue(c1) + HexDigitValue(c2)>>
            ELSE <<1, HexDigitValue(c1)>>
        ELSE <<0, 0>>

\* verify_checksum with the XOR loop started at the '$' (index 0).
verify_checksum_xor_from_start(sentence) ==
    IF Len(sentence) = 0 \/ sentence[1] # kNmeaStart THEN "kIncomplete"
    ELSE LET star == rfind(sentence, kNmeaChecksumSep) IN
        IF star = 0 \/ star + kChecksumHexLen > Len(sentence)
        THEN "kIncomplete"
        ELSE LET computed == xor_loop(sentence, 1, star)
                 scanned  == sscanf_02X(sentence, star + 1)
             IN  IF scanned[1] # 1 THEN "kIncomplete"
                 ELSE IF computed = scanned[2] % 256 THEN "kOk"
                 ELSE "kMismatch"

\* verify_checksum with the length test off by one: a single character
\* after the '*' is let through to sscanf.
verify_checksum_short_tail(sentence) ==
    IF Len(sentence) = 0 \/ sentence[1] # kNmeaStart THEN "kIncomplete"
    ELSE LET star == rfind(sentence, kNmeaChecksumSep) IN
        IF star = 0 \/ star + 1 > Len(sentence)
        THEN "kIncomplete"
        ELSE LET computed == xor_loop(sentence, 2, star)
                 scanned  == sscanf_02X(sentence, star + 1)
             IN  IF scanned[1] # 1 THEN "kIncomplete"
                 ELSE IF computed = scanned[2] % 256 THEN "kOk"
                 ELSE "kMismatch"

\* verify_checksum that demands the line to end right after the two
\* characters that follow the '*'.
verify_checksum_strict_suffix(sentence) ==
    IF Len(sentence) = 0 \/ sentence[1] # kNmeaStart THEN "kIncomplete"
    ELSE LET star == rfind(sentence, kNmeaChecksumSep) IN
        IF star = 0 \/ star + kChecksumHexLen # Len(sentence)
        THEN "kIncomplete"
        ELSE LET computed == xor_loop(sentence, 2, star)
                 scanned  == sscanf_02X(sentence, star + 1)
             IN  IF scanned[1] # 1 THEN "kIncomplete"
                 ELSE IF computed = scanned[2] % 256 THEN "kOk"
                 ELSE "kMismatch"

verify_checksum(sentence) ==
    IF Len(sentence) = 0 \/ sentence[1] # kNmeaStart THEN "kIncomplete"
    ELSE LET star == rfind(sentence, kNmeaChecksumSep) IN
        IF star = 0 \/ star + kChecksumHexLen > Len(sentence)
        THEN "kIncomplete"
        ELSE LET computed == xor_loop(sentence, 2, star)
                 scanned  == sscanf_02X(sentence, star + 1)
             IN  IF scanned[1] # 1 THEN "kIncomplete"
                 ELSE IF computed = scanned[2] % 256 THEN "kOk"
                 ELSE "kMismatch"

\* ------------------------------------------------------------------------
\* is_not_relevant
\* ------------------------------------------------------------------------

\* The characters of a string literal.
Chars(str) == [i \in 1..Len(str) |-> SubSeq(str, i, i)]

kIdGPRMC == Chars("$GPRMC")
kIdGNRMC == Chars("$GNRMC")
kIdGPGSA == Chars("$GPGSA")
kIdGPGGA == Chars("$GPGGA")
kIdGNGSA == Chars("$GNGSA")
kIdGNGGA == Chars("$GNGGA")

\* is_not_relevant taking the whole line for the identifier when there is
\* no ','.
is_not_relevant_whole_line(sentence) ==
    LET comma == find(sentence, kNmeaFieldDelim)
        id    == IF comma = 0 THEN sentence ELSE Slice(sentence, 1, comma - 1)
    IN  id = kIdGPGSA \/ id = kIdGPGGA \/ id = kIdGNGSA \/ id = kIdGNGGA

is_not_relevant(sentence) ==
    LET comma == find(sentence, kNmeaFieldDelim) IN
    IF comma = 0 THEN FALSE
    ELSE LET id == Slice(sentence, 1, comma - 1) IN
         id = kIdGPGSA \/ id = kIdGPGGA \/ id = kIdGNGSA \/ id = kIdGNGGA

\* ------------------------------------------------------------------------
\* split, std::stod, nmea_to_decimal
\* ------------------------------------------------------------------------

\* The loop of split from position start on; the last token runs to the end
\* of the string.
RECURSIVE split_from(_, _, _)
split_from(s, delim, start) ==
    LET end == find_from(s, delim, start) IN
    IF end = 0 THEN <<Slice(s, start, Len(s))>>
    ELSE <<Slice(s, start, end - 1)>> \o split_from(s, delim, end + 1)

split(s, delim) == split_from(s, delim, 1)

\* A double is held as a whole number of thousandths: every number the
\* model reads has at most FracDigits digits after its decimal point, and
\* sums, differences and products by a whole number are exact on them.
FracDigits == 3
DoubleScale == 10 ^ FracDigits

IsDigit(c) == c \in {"0", "1", "2", "3", "4", "5", "6", "7", "8", "9"}

\* The position after the run of decimal digits that starts at pos.
RECURSIVE digits_end(_, _)
digits_end(s, pos) ==
    IF pos <= Len(s) /\ IsDigit(s[pos]) THEN digits_end(s, pos + 1) ELSE pos

\* The value of the decimal digits at positions from..to (0 when empty).
RECURSIVE digits_value(_, _, _)
digits_value(s, from, to) ==
    IF from > to THEN 0
    ELSE 10 * digits_value(s, from, to - 1) + (Ord[s[to]] - 48)

\* std::stod(s): white space is skipped, then the longest prefix of the
\* form [sign] digits [. digits] with at least one digit is converted and
\* whatever follows it is ignored; std::invalid_argument is thrown when
\* there is no such prefix.  [ok |-> FALSE] stands for the exception.
\* Exponents, hexadecimal floats, "inf" and "nan" are outside the model: no
\* input of the model has 'e', 'x', 'i' or 'n' (of either case) where a
\* number could continue or start.
stod(s) ==
    LET p0      == skip_space(s, 1)
        signed  == p0 <= Len(s) /\ s[p0] \in {"+", "-"}
        p1      == IF signed THEN p0 + 1 ELSE p0
        p2      == digits_end(s, p1)
        dotted  == p2 <= Len(s) /\ s[p2] = "."
        p3      == IF dotted THEN digits_end(s, p2 + 1) ELSE p2
        nInt    == p2 - p1
        nFrac   == IF dotted THEN p3 - (p2 + 1) ELSE 0
        used    == IF nFrac > FracDigits THEN FracDigits ELSE nFrac
        whole   == digits_value(s, p1, p2 - 1)
        frac    == digits_value(s, p2 + 1, p2 + used) * (10 ^ (FracDigits - used))
        mag     == whole * DoubleScale + frac
    IN  IF nInt + nFrac = 0 THEN [ok |-> FALSE, value |-> 0]
        ELSE [ok |-> TRUE,
              value |-> IF signed /\ s[p0] = "-" THEN 0 - mag ELSE mag]

kMinuteDigitWidth == 2
kMinutesPerDegree == 60
kHemSouth         == "S"
kHemWest          == "W"

\* A latitude or longitude is held as a whole number of 1/300000 degree:
\* a thousandth of a minute is UnitsPerMilliMinute of these.
UnitsPerMilliMinute == 5

\* nmea_to_decimal negating for the southern hemisphere alone.
nmea_to_decimal_south_only(raw, hem) ==
    LET NaN == [nan |-> TRUE, value |-> 0]
        dot == find(raw, ".")
    IN  IF Len(raw) = 0 THEN NaN
        ELSE IF dot = 0 \/ dot - 1 < kMinuteDigitWidth THEN NaN
        ELSE LET degrees == stod(Slice(raw, 1, dot - 1 - kMinuteDigitWidth))
                 minutes == stod(Slice(raw, dot - kMinuteDigitWidth, Len(raw)))
                 dd == (degrees.value * kMinutesPerDegree + minutes.value)
                           * UnitsPerMilliMinute
             IN  IF ~degrees.ok \/ ~minutes.ok THEN NaN
                 ELSE [nan |-> FALSE,
                       value |-> IF hem = kHemSouth THEN 0 - dd ELSE dd]

\* nmea_to_decimal(raw, hem); [nan |-> TRUE] stands for std::nan("").
nmea_to_decimal(raw, hem) ==
    LET NaN == [nan |-> TRUE, value |-> 0]
        dot == find(raw, ".")
    IN  IF Len(raw) = 0 THEN NaN
        ELSE IF dot = 0 \/ dot - 1 < kMinuteDigitWidth THEN NaN
        ELSE LET degrees == stod(Slice(raw, 1, dot - 1 - kMinuteDigitWidth))
                 minutes == stod(Slice(raw, dot - kMinuteDigitWidth, Len(raw)))
                 dd == (degrees.value * kMinutesPerDegree + minutes.value)
                           * UnitsPerMilliMinute
             IN  IF ~degrees.ok \/ ~minutes.ok THEN NaN
                 ELSE [nan |-> FALSE,
                       value |-> IF hem = kHemSouth \/ hem = kHemWest
                                 THEN 0 - dd ELSE dd]

\* ------------------------------------------------------------------------
\* parse_gprmc
\* ------------------------------------------------------------------------

\* Field indices, 1-based here (the C++ index plus one).
kFieldSentenceId == 1
kFieldTime       == 2
kFieldStatus     == 3
kFieldLat        == 4
kFieldNS         == 5
kFieldLon        == 6
kFieldEW         == 7
kFieldSpeed      == 8
kGprmcMinFields  == 8
kStatusActive    == "A"
kHemFieldLen     == 1

\* 0.514444, in millionths; a speed in m/s is held as a whole number of
\* 1e-9 m/s (thousandths of a knot times millionths).
kKnotsToMps == 514444

\* The first statements of parse_gprmc, with the checksum tail left in
\* place.
gprmc_fields_tail_kept(sentence) == split(sentence, kNmeaFieldDelim)

\* The first statements of parse_gprmc: the sentence up to its last '*'
\* (all of it when it has none), split on ','.
gprmc_fields(sentence) ==
    LET star == rfind(sentence, kNmeaChecksumSep)
        body == IF star # 0 THEN Slice(sentence, 1, star - 1) ELSE sentence
    IN  split(body, kNmeaFieldDelim)

\* parse_gprmc without the test of the time field.
parse_gprmc_no_time_check(sentence, out) ==
    LET fields == gprmc_fields(sentence)
        fail   == [ret |-> FALSE, out |-> out]
    IN  IF Len(fields) < kGprmcMinFields THEN fail
        ELSE IF fields[kFieldSentenceId] # kIdGPRMC
                /\ fields[kFieldSentenceId] # kIdGNRMC THEN fail
        ELSE IF Len(fields[kFieldStatus]) = 0
                \/ fields[kFieldStatus][1] # kStatusActive THEN fail
        ELSE IF Len(fields[kFieldNS]) # kHemFieldLen
                \/ Len(fields[kFieldEW]) # kHemFieldLen THEN fail
        ELSE LET lat == nmea_to_decimal(fields[kFieldLat], fields[kFieldNS][1])
                 lon == nmea_to_decimal(fields[kFieldLon], fields[kFieldEW][1])
                 parsed == stod(fields[kFieldSpeed])
                 speed_knots ==
                     IF Len(fields[kFieldSpeed]) # 0 /\ parsed.ok
                     THEN parsed.value ELSE 0
             IN  IF lat.nan \/ lon.nan THEN fail
                 ELSE [ret |-> TRUE,
                       out |-> [timestamp |-> fields[kFieldTime],
                                latitude  |-> lat.value,
                                longitude |-> lon.value,
                                speed_mps |-> speed_knots * kKnotsToMps]]

\* parse_gprmc storing the timestamp before the hemisphere and coordinate
\* checks.
parse_gprmc_writes_early(sentence, out) ==
    LET fields == gprmc_fields(sentence)
        fail   == [ret |-> FALSE, out |-> out]
    IN  IF Len(fields) < kGprmcMinFields THEN fail
        ELSE IF fields[kFieldSentenceId] # kIdGPRMC
                /\ fields[kFieldSentenceId] # kIdGNRMC THEN fail
        ELSE IF Len(fields[kFieldStatus]) = 0
                \/ fields[kFieldStatus][1] # kStatusActive THEN fail
        ELSE IF Len(fields[kFieldTime]) = 0 THEN fail
        ELSE IF Len(fields[kFieldNS]) # kHemFieldLen
                \/ Len(fields[kFieldEW]) # kHemFieldLen THEN [ret |-> FALSE,
                  out |-> [out EXCEPT !.timestamp = fields[kFieldTime]]]
        ELSE LET lat == nmea_to_decimal(fields[kFieldLat], fields[kFieldNS][1])
                 lon == nmea_to_decimal(fields[kFieldLon], fields[kFieldEW][1])
                 parsed == stod(fields[kFieldSpeed])
                 speed_knots ==
                     IF Len(fields[kFieldSpeed]) # 0 /\ parsed.ok
                     THEN parsed.value ELSE 0
             IN  IF lat.nan \/ lon.nan THEN [ret |-> FALSE,
                  out |-> [out EXCEPT !.timestamp = fields[kFieldTime]]]
                 ELSE [ret |-> TRUE,
                       out |-> [timestamp |-> fields[kFieldTime],
                                latitude  |-> lat.value,
                                longitude |-> lon.value,
                                speed_mps |-> speed_knots * kKnotsToMps]]

\* parse_gprmc testing the latitude alone for NaN.
parse_gprmc_lat_only(sentence, out) ==
    LET fields == gprmc_fields(sentence)
        fail   == [ret |-> FALSE, out |-> out]
    IN  IF Len(fields) < kGprmcMinFields THEN fail
        ELSE IF fields[kFieldSentenceId] # kIdGPRMC
                /\ fields[kFieldSentenceId] # kIdGNRMC THEN fail
        ELSE IF Len(fields[kFieldStatus]) = 0
                \/ fields[kFieldStatus][1] # kStatusActive THEN fail
        ELSE IF Len(fields[kFieldTime]) = 0 THEN fail
        ELSE IF Len(fields[kFieldNS]) # kHemFieldLen
                \/ Len(fields[kFieldEW]) # kHemFieldLen THEN fail
        ELSE LET lat == nmea_to_decimal(fields[kFieldLat], fields[kFieldNS][1])
                 lon == nmea_to_decimal(fields[kFieldLon], fields[kFieldEW][1])
                 parsed == stod(fields[kFieldSpeed])
                 speed_knots ==
                     IF Len(fields[kFieldSpeed]) # 0 /\ parsed.ok
                     THEN parsed.value ELSE 0
             IN  IF lat.nan THEN fail
                 ELSE [ret |-> TRUE,
                       out |-> [timestamp |-> fields[kFieldTime],
                                latitude  |-> lat.value,
                                longitude |-> lon.value,
                                speed_mps |-> speed_knots * kKnotsToMps]]

\* parse_gprmc rejecting a speed field that std::stod cannot read.
parse_gprmc_speed_rejects(sentence, out) ==
    LET fields == gprmc_fields(sentence)
        fail   == [ret |-> FALSE, out |-> out]
    IN  IF Len(fields) < kGprmcMinFields THEN fail
        ELSE IF fields[kFieldSentenceId] # kIdGPRMC
                /\ fields[kFieldSentenceId] # kIdGNRMC THEN fail
        ELSE IF Len(fields[kFieldStatus]) = 0
                \/ fields[kFieldStatus][1] # kStatusActive THEN fail
        ELSE IF Len(fields[kFieldTime]) = 0 THEN fail
        ELSE IF Len(fields[kFieldNS]) # kHemFieldLen
                \/ Len(fields[kFieldEW]) # kHemFieldLen THEN fail
        ELSE LET lat == nmea_to_decimal(fields[kFieldLat], fields[kFieldNS][1])
                 lon == nmea_to_decimal(fields[kFieldLon], fields[kFieldEW][1])
                 parsed == stod(fields[kFieldSpeed])
                 speed_knots ==
                     IF Len(fields[kFieldSpeed]) # 0 /\ parsed.ok
                     THEN parsed.value ELSE 0
             IN  IF lat.nan \/ lon.nan THEN fail
                 ELSE IF Len(fields[kFieldSpeed]) # 0 /\ ~parsed.ok THEN fail
                 ELSE [ret |-> TRUE,
                       out |-> [timestamp |-> fields[kFieldTime],
                                latitude  |-> lat.value,
                                longitude |-> lon.value,
                                speed_mps |-> speed_knots * kKnotsToMps]]

\* parse_gprmc(sentence, out): ret is the value returned and out the record
\* behind the reference afterwards.
parse_gprmc(sentence, out) ==
    LET fields == gprmc_fields(sentence)
        fail   == [ret |-> FALSE, out |-> out]
    IN  IF Len(fields) < kGprmcMinFields THEN fail
        ELSE IF fields[kFieldSentenceId] # kIdGPRMC
                /\ fields[kFieldSentenceId] # kIdGNRMC THEN fail
        ELSE IF Len(fields[kFieldStatus]) = 0
                \/ fields[kFieldStatus][1] # kStatusActive THEN fail
        ELSE IF Len(fields[kFieldTime]) = 0 THEN fail
        ELSE IF Len(fields[kFieldNS]) # kHemFieldLen
                \/ Len(fields[kFieldEW]) # kHemFieldLen THEN fail
        ELSE LET lat == nmea_to_decimal(fields[kFieldLat], fields[kFieldNS][1])
                 lon == nmea_to_decimal(fields[kFieldLon], fields[kFieldEW][1])
                 parsed == stod(fields[kFieldSpeed])
                 speed_knots ==
                     IF Len(fields[kFieldSpeed]) # 0 /\ parsed.ok
                     THEN parsed.value ELSE 0
             IN  IF lat.nan \/ lon.nan THEN fail
                 ELSE [ret |-> TRUE,
                       out |-> [timestamp |-> fields[kFieldTime],
                                latitude  |-> lat.value,
                                longitude |-> lon.value,
                                speed_mps |-> speed_knots * kKnotsToMps]]

\* ------------------------------------------------------------------------
\* dedup_last_write_wins
\* ------------------------------------------------------------------------

\* A record is [timestamp, latitude, longitude, speed_mps]; the timestamp is
\* a string, the other fields are numbers.

\* a < b on std::string: the first differing byte decides, and a proper
\* prefix is less than the longer string.
RECURSIVE StrLessFrom(_, _, _)
StrLessFrom(a, b, i) ==
    IF i > Len(a) THEN i <= Len(b)
    ELSE IF i > Len(b) THEN FALSE
    ELSE IF a[i] # b[i] THEN Ord[a[i]] < Ord[b[i]]
    ELSE StrLessFrom(a, b, i + 1)

StrLess(a, b) == StrLessFrom(a, b, 1)

\* seen[r.timestamp] = r for one record r.
map_assign(seen, r) ==
    [k \in DOMAIN seen \cup {r.timestamp} |->
        IF k = r.timestamp THEN r ELSE seen[k]]

\* seen[r.timestamp] = r that leaves an existing entry alone
\* (first write wins).
map_assign_keep_first(seen, r) ==
    [k \in DOMAIN seen \cup {r.timestamp} |->
        IF k \in DOMAIN seen THEN seen[k] ELSE r]

\* The map after `for (r : records) seen[r.timestamp] = r` has run over the
\* first n records.
RECURSIVE seen_after(_, _)
seen_after(records, n) ==
    IF n = 0 THEN <<>>
    ELSE map_assign(seen_after(records, n - 1), records[n])

RECURSIVE seen_after_keep_first(_, _)
seen_after_keep_first(records, n) ==
    IF n = 0 THEN <<>>
    ELSE map_assign_keep_first(seen_after_keep_first(records, n - 1), records[n])

\* `for ([key, rec] : seen) result.push_back(rec)`: the values of the map in
\* ascending key order.
RECURSIVE map_in_order(_)
map_in_order(seen) ==
    IF DOMAIN seen = {} THEN <<>>
    ELSE LET least == CHOOSE k \in DOMAIN seen :
                          \A j \in DOMAIN seen : j = k \/ StrLess(k, j)
         IN  <<seen[least]>>
             \o map_in_order([k \in DOMAIN seen \ {least} |-> seen[k]])

\* The values of the map in the order in which their keys were first
\* inserted (an unordered container without the final sort).
RECURSIVE map_in_insertion_order(_, _, _)
map_in_insertion_order(seen, records, i) ==
    IF i > Len(records) THEN <<>>
    ELSE IF \E j \in 1..(i - 1) : records[j].timestamp = records[i].timestamp
    THEN map_in_insertion_order(seen, records, i + 1)
    ELSE <<seen[records[i].timestamp]>>
         \o map_in_insertion_order(seen, records, i + 1)

dedup_unsorted(records) ==
    map_in_insertion_order(seen_after(records, Len(records)), records, 1)

dedup_first_write_wins(records) ==
    map_in_order(seen_after_keep_first(records, Len(records)))

dedup_last_write_wins(records) ==
    map_in_order(seen_after(records, Len(records)))

\* ------------------------------------------------------------------------
\* dedup_spatial
\* ------------------------------------------------------------------------

\* std::fabs.
fabs(x) == IF x < 0 THEN 0 - x ELSE x

\* The test of the loop body: cur is pushed when it holds.
moved(cur, prev, epsilon) ==
    \/ fabs(cur.latitude - prev.latitude) > epsilon
    \/ fabs(cur.longitude - prev.longitude) > epsilon

\* The body of the loop with the previous input record as the reference.
spatial_step_prev_input(records, epsilon, i, result) ==
    LET prev == records[i - 1]
        cur  == records[i]
    IN  IF moved(cur, prev, epsilon) THEN Append(result, cur) ELSE result

\* The body of the loop with the record put in front of what was kept.
spatial_step_push_front(records, epsilon, i, result) ==
    LET prev == result[Len(result)]
        cur  == records[i]
    IN  IF moved(cur, prev, epsilon) THEN <<cur>> \o result ELSE result

\* The body of the loop for C++ index i - 1: what has been kept after it,
\* given what had been kept before it.
spatial_step(records, epsilon, i, result) ==
    LET prev == result[Len(result)]
        cur  == records[i]
    IN  IF moved(cur, prev, epsilon) THEN Append(result, cur) ELSE result

\* The loop `for (i = 1; i < records.size(); ++i)` from C++ index i - 1 on,
\* with result holding what has been kept so far.
RECURSIVE spatial_loop(_, _, _, _)
spatial_loop(records, epsilon, i, result) ==
    IF i > Len(records) THEN result
    ELSE spatial_loop(records, epsilon, i + 1,
                      spatial_step(records, epsilon, i, result))

\* The loop with `>=` for `>`.
RECURSIVE spatial_loop_ge(_, _, _, _)
spatial_loop_ge(records, epsilon, i, result) ==
    IF i > Len(records) THEN result
    ELSE LET prev == result[Len(result)]
             cur  == records[i]
         IN  spatial_loop_ge(records, epsilon, i + 1,
                 IF \/ fabs(cur.latitude - prev.latitude) >= epsilon
                    \/ fabs(cur.longitude - prev.longitude) >= epsilon
                 THEN Append(result, cur) ELSE result)

dedup_spatial_ge(records, epsilon) ==
    IF Len(records) = 0 THEN <<>>
    ELSE spatial_loop_ge(records, epsilon, 2, <<records[1]>>)

\* The loop with the previous input record (records[i - 1]) for the last
\* kept record (result.back()).
RECURSIVE spatial_loop_prev_seen(_, _, _, _)
spatial_loop_prev_seen(records, epsilon, i, result) ==
    IF i > Len(records) THEN result
    ELSE spatial_loop_prev_seen(records, epsilon, i + 1,
             IF moved(records[i], records[i - 1], epsilon)
             THEN Append(result, records[i]) ELSE result)

dedup_spatial_prev_seen(records, epsilon) ==
    IF Len(records) = 0 THEN <<>>
    ELSE spatial_loop_prev_seen(records, epsilon, 2, <<records[1]>>)

\* dedup_spatial that compares with the first record without keeping it.
dedup_spatial_first_not_kept(records, epsilon) ==
    IF Len(records) = 0 THEN <<>>
    ELSE Tail(spatial_loop(records, epsilon, 2, <<records[1]>>))

dedup_spatial(records, epsilon) ==
    IF Len(records) = 0 THEN <<>>
    ELSE spatial_loop(records, epsilon, 2, <<records[1]>>)

\* ------------------------------------------------------------------------
\* build_google_maps_url
\* ------------------------------------------------------------------------

kCoordPrecision == 6
kGoogleMapsBase == Chars("https://www.google.com/maps/dir")

DecimalDigits == Chars("0123456789")

RECURSIVE Pow10(_)
Pow10(n) == IF n = 0 THEN 1 ELSE 10 * Pow10(n - 1)

RECURSIVE Gcd(_, _)
Gcd(a, b) == IF b = 0 THEN a ELSE Gcd(b, a % b)

\* The decimal digits of a natural number, without leading zeros.
RECURSIVE put_natural(_)
put_natural(n) ==
    IF n < 10 THEN <<DecimalDigits[n + 1]>>
    ELSE Append(put_natural(n \div 10), DecimalDigits[(n % 10) + 1])

\* The last `width` decimal digits of a natural number, zero-filled.
RECURSIVE put_digits(_, _)
put_digits(n, width) ==
    IF width = 0 THEN <<>>
    ELSE Append(put_digits(n \div 10, width - 1), DecimalDigits[(n % 10) + 1])

\* operator<<(double) on a stream set to std::fixed with the given
\* precision: the value, in units of 1/300000 degree, rounded to the nearest
\* multiple of 10^-precision and written as sign, integer part, '.', and
\* exactly `precision` digits.
put_fixed(value, precision) ==
    LET units  == kMinutesPerDegree * DoubleScale * UnitsPerMilliMinute
        common == Gcd(Pow10(precision), units)
        num    == Pow10(precision) \div common
        den    == units \div common
        mag    == fabs(value)
        scaled == (2 * mag * num + den) \div (2 * den)
    IN  (IF value < 0 THEN <<"-">> ELSE <<>>)
        \o put_natural(scaled \div Pow10(precision))
        \o (IF precision = 0 THEN <<>> ELSE <<".">>)
        \o put_digits(scaled % Pow10(precision), precision)

\* The loop `for (const auto& pt : route) url << '/' << lat << ',' << lon`.
RECURSIVE url_loop(_, _, _)
url_loop(route, i, url) ==
    IF i > Len(route) THEN url
    ELSE url_loop(route, i + 1,
             url \o <<"/">> \o put_fixed(route[i].latitude, kCoordPrecision)
                 \o <<",">> \o put_fixed(route[i].longitude, kCoordPrecision))

\* build_google_maps_url without its test for an empty route.
build_google_maps_url_no_empty_test(route) ==
    url_loop(route, 1, kGoogleMapsBase)

\* build_google_maps_url writing the first point only.
build_google_maps_url_first_point(route) ==
    IF Len(route) = 0 THEN <<>>
    ELSE url_loop(<<route[1]>>, 1, kGoogleMapsBase)

build_google_maps_url(route) ==
    IF Len(route) = 0 THEN <<>>
    ELSE url_loop(route, 1, kGoogleMapsBase)

\* ------------------------------------------------------------------------
\* The single-file program: its own copies of the functions
\* ------------------------------------------------------------------------

\* 1e-5 degrees, in units of 1/300000 degree.
mono_kSpatialEpsilon == 3

\* 0.514444, in millionths.
mono_kKnotsToMps == 514444

mono_split(s, delim) == split_from(s, delim, 1)

mono_nmea_to_decimal(raw, hem) ==
    LET NaN == [nan |-> TRUE, value |-> 0]
        dot == find(raw, ".")
    IN  IF Len(raw) = 0 THEN NaN
        ELSE IF dot = 0 \/ dot - 1 < 2 THEN NaN
        ELSE LET degrees == stod(Slice(raw, 1, dot - 1 - 2))
                 minutes == stod(Slice(raw, dot - 2, Len(raw)))
                 dd == (degrees.value * 60 + minutes.value) * UnitsPerMilliMinute
             IN  IF ~degrees.ok \/ ~minutes.ok THEN NaN
                 ELSE [nan |-> FALSE,
                       value |-> IF hem = "S" \/ hem = "W" THEN 0 - dd ELSE dd]

mono_verify_checksum(sentence) ==
    IF Len(sentence) = 0 \/ sentence[1] # "$" THEN "kIncomplete"
    ELSE LET star == rfind(sentence, "*") IN
        IF star = 0 \/ star + 2 > Len(sentence)
        THEN "kIncomplete"
        ELSE LET computed == xor_loop(sentence, 2, star)
                 scanned  == sscanf_02X(sentence, star + 1)
             IN  IF scanned[1] # 1 THEN "kIncomplete"
                 ELSE IF computed = scanned[2] % 256 THEN "kOk"
                 ELSE "kMismatch"

\* parse_gprmc of the single-file program; `out` is an uninitialized
\* NmeaRecord that is read only after a successful call, which has
\* assigned all four members.
mono_parse_gprmc(sentence, out) ==
    LET star   == rfind(sentence, "*")
        body   == IF star # 0 THEN Slice(sentence, 1, star - 1) ELSE sentence
        fields == mono_split(body, ",")
        fail   == [ret |-> FALSE, out |-> out]
    IN  IF Len(fields) < 8 THEN fail
        ELSE IF fields[1] # Chars("$GPRMC") /\ fields[1] # Chars("$GNRMC") THEN fail
        ELSE IF Len(fields[3]) = 0 \/ fields[3][1] # "A" THEN fail
        ELSE IF Len(fields[2]) = 0 THEN fail
        ELSE IF Len(fields[5]) # 1 \/ Len(fields[7]) # 1 THEN fail
        ELSE LET lat == mono_nmea_to_decimal(fields[4], fields[5][1])
                 lon == mono_nmea_to_decimal(fields[6], fields[7][1])
                 parsed == stod(fields[8])
                 speed_knots ==
                     IF Len(fields[8]) # 0 /\ parsed.ok THEN parsed.value ELSE 0
             IN  IF lat.nan \/ lon.nan THEN fail
                 ELSE [ret |-> TRUE,
                       out |-> [timestamp |-> fields[2],
                                latitude  |-> lat.value,
                                longitude |-> lon.value,
                                speed_mps |-> speed_knots * mono_kKnotsToMps]]

mono_dedup_last_write_wins(records) ==
    map_in_order(seen_after(records, Len(records)))

RECURSIVE mono_spatial_loop(_, _, _, _)
mono_spatial_loop(records, epsilon, i, result) ==
    IF i > Len(records) THEN result
    ELSE LET prev == result[Len(result)]
             cur  == records[i]
         IN  mono_spatial_loop(records, epsilon, i + 1,
                 IF fabs(cur.latitude - prev.latitude) > epsilon
                    \/ fabs(cur.longitude - prev.longitude) > epsilon
                 THEN Append(result, cur) ELSE result)

mono_dedup_spatial(records, epsilon) ==
    IF Len(records) = 0 THEN <<>>
    ELSE mono_spatial_loop(records, epsilon, 2, <<records[1]>>)

\* `GpsRecord rec{}`.
EmptyRecord ==
    [timestamp |-> <<>>, latitude |-> 0, longitude |-> 0, speed_mps |-> 0]

\* ------------------------------------------------------------------------
\* State
\* ------------------------------------------------------------------------

VARIABLES
    line,          \* the line under examination
    cs_result,     \* the result of verify_checksum on it, "none" before the call
    records,       \* the argument of a dedup function
    epsilon,       \* the threshold handed to dedup_spatial
    called,        \* the dedup function that has run, "none" before the call
    result,        \* what it returned, or what dedup_spatial has kept so far
    scan,          \* the index of dedup_spatial's loop, 0 outside the loop
    nr_result,     \* what is_not_relevant returned for it, "none" if not called
    parse_ret,     \* what parse_gprmc returned for it, "none" if not called
    pc,            \* where main is
    argc,          \* main's argc
    argi,          \* main's loop variable over argv
    lines_total,
    checksum_fail,
    not_relevant,
    parse_fail,
    all_records,
    deduped,
    route,
    exit_code,     \* what main returned, -1 while it runs
    url,           \* what main printed as the Google Maps URL, empty if nothing
    mono,          \* the counters and lists of the single-file program
    hem,           \* the hemisphere character handed to nmea_to_decimal
    out,           \* the record behind parse_gprmc's reference before the call
    fn,            \* the parser function that has run, "none" before the call
    ret            \* what it returned (with the record behind the reference)

checksumVars == <<line, cs_result>>
gateVars     == <<nr_result, parse_ret>>
dedupVars    == <<records, epsilon, called, result, scan>>
counterVars  == <<lines_total, checksum_fail, not_relevant, parse_fail>>
stageVars    == <<deduped, route, exit_code, url>>
mainVars     == <<gateVars, pc, argc, argi, counterVars, all_records, stageVars, mono>>

unitVars     == <<hem, out, fn, ret>>

vars == <<checksumVars, dedupVars, mainVars, unitVars>>

\* ------------------------------------------------------------------------
\* SpecChecksum: verify_checksum applied to every short line
\* ------------------------------------------------------------------------

ChecksumAlphabet == {"$", "*", "A", "4", "1", " ", "+"}

\* The single-file program before its first line.
MonoStart ==
    [lines_total |-> 0, checksum_fail |-> 0, not_relevant |-> 0,
     parse_fail |-> 0, all_records |-> <<>>, deduped |-> <<>>, route |-> <<>>]

\* The dedup variables at rest.
DedupIdle ==
    /\ records = <<>>
    /\ epsilon = 0
    /\ called = "none"
    /\ result = <<>>
    /\ scan = 0

\* main not started.
MainIdle ==
    /\ nr_result = "none"
    /\ parse_ret = "none"
    /\ pc = "idle"
    /\ argc = 0
    /\ argi = 0
    /\ lines_total = 0
    /\ checksum_fail = 0
    /\ not_relevant = 0
    /\ parse_fail = 0
    /\ all_records = <<>>
    /\ deduped = <<>>
    /\ route = <<>>
    /\ exit_code = -1
    /\ url = <<>>
    /\ mono = MonoStart

\* No parser function called on its own.
UnitIdle ==
    /\ hem = "N"
    /\ out = EmptyRecord
    /\ fn = "none"
    /\ ret = "none"

InitChecksum ==
    /\ line = <<>>
    /\ cs_result = "none"
    /\ DedupIdle
    /\ MainIdle
    /\ UnitIdle

\* The caller extends the line it is about to verify by one character.
TypeChar ==
    /\ cs_result = "none"
    /\ Len(line) < MaxLen
    /\ \E c \in ChecksumAlphabet : line' = Append(line, c)
    /\ UNCHANGED <<unitVars, cs_result, dedupVars, mainVars>>

CallVerify ==
    /\ cs_result = "none"
    /\ cs_result' = verify_checksum(line)
    /\ UNCHANGED <<unitVars, line, dedupVars, mainVars>>

NextChecksum == TypeChar \/ CallVerify

SpecChecksum == InitChecksum /\ [][NextChecksum]_vars

\* ------------------------------------------------------------------------
\* SpecDedup: the dedup functions applied to every short record list
\* ------------------------------------------------------------------------

\* Timestamps whose string order differs from their order of length, so
\* that the ordering of the map is exercised ("1" < "10" < "2").
DedupTimestamps == {<<"1">>, <<"1", "0">>, <<"2">>}

\* Positions <<latitude, longitude>> on a grid, so that differences of 0, 1
\* and 2 grid steps in one axis or in both meet thresholds of 0 and 1 step
\* (and a negative threshold, which nothing can fail to exceed).
DedupPositions == {<<0, 0>>, <<1, 0>>, <<2, 0>>, <<0, 1>>}
DedupSpeeds    == 0..1
DedupEpsilons  == -1..1

DedupRecords ==
    {[timestamp |-> t, latitude |-> p[1], longitude |-> p[2], speed_mps |-> v] :
        t \in DedupTimestamps, p \in DedupPositions, v \in DedupSpeeds}

InitDedup ==
    /\ line = <<>>
    /\ cs_result = "none"
    /\ DedupIdle
    /\ MainIdle
    /\ UnitIdle

\* The caller appends one record to the list it is about to hand over.
AddRecord ==
    /\ called = "none"
    /\ Len(records) < MaxRecs
    /\ \E r \in DedupRecords : records' = Append(records, r)
    /\ UNCHANGED <<unitVars, epsilon, called, result, scan, checksumVars, mainVars>>

CallLastWriteWins ==
    /\ called = "none"
    /\ called' = "dedup_last_write_wins"
    /\ result' = dedup_last_write_wins(records)
    /\ UNCHANGED <<unitVars, records, epsilon, scan, checksumVars, mainVars>>

CallSpatial ==
    /\ called = "none"
    /\ \E e \in DedupEpsilons :
        /\ epsilon' = e
        /\ called' = "dedup_spatial"
        /\ result' = dedup_spatial(records, e)
    /\ UNCHANGED <<unitVars, records, scan, checksumVars, mainVars>>

NextDedup == AddRecord \/ CallLastWriteWins \/ CallSpatial

SpecDedup == InitDedup /\ [][NextDedup]_vars

\* ------------------------------------------------------------------------
\* SpecRelevant: is_not_relevant applied to lines put together from pieces
\* ------------------------------------------------------------------------

\* Talker prefixes, sentence types, the field delimiter and a letter: the
\* four unsupported identifiers, the supported ones, and identifiers that
\* are too short, too long or preceded by a ',' can all be put together.
IdPieces ==
    {Chars("$GP"), Chars("$GN"), Chars("GSA"), Chars("GGA"), Chars("RMC"),
     <<",">>, <<"A">>}

InitRelevant ==
    /\ line = <<>>
    /\ cs_result = "none"
    /\ DedupIdle
    /\ MainIdle
    /\ UnitIdle

\* The caller extends the line it is about to classify by one piece.
AppendIdPiece ==
    /\ fn = "none"
    /\ \E piece \in IdPieces :
        /\ Len(line) + Len(piece) <= MaxIdLen
        /\ line' = line \o piece
    /\ UNCHANGED <<cs_result, dedupVars, mainVars, unitVars>>

CallNotRelevant ==
    /\ fn = "none"
    /\ fn' = "is_not_relevant"
    /\ ret' = IF is_not_relevant(line) THEN "true" ELSE "false"
    /\ UNCHANGED <<checksumVars, dedupVars, mainVars, hem, out>>

NextRelevant == AppendIdPiece \/ CallNotRelevant

SpecRelevant == InitRelevant /\ [][NextRelevant]_vars

\* ------------------------------------------------------------------------
\* SpecParse: parse_gprmc applied to sentences written field by field
\* ------------------------------------------------------------------------

\* What the caller can write into the field at 1-based position i: for
\* each field the well-formed values and the ways in which it can be wrong.
FieldChoices(i) ==
    CASE i = kFieldSentenceId ->
             {Chars("$GPRMC"), Chars("$GNRMC"), Chars("$GPRMCX")}
      [] i = kFieldTime   -> {Chars("100000"), <<>>}
      [] i = kFieldStatus -> {<<"A">>, <<"V">>, <<>>, Chars("AV")}
      [] i = kFieldLat    ->
             {Chars("4807.038"), <<>>, Chars("4807"), Chars("7.038"),
              Chars("07.038"), Chars("4807.0Z8"), Chars("4Z07.038")}
      [] i = kFieldNS     -> {<<"N">>, <<"S">>, <<"X">>, Chars("NS")}
      [] i = kFieldLon    ->
             {Chars("01131.000"), Chars("01131"), Chars("011Z1.000")}
      [] i = kFieldEW     -> {<<"E">>, <<"W">>, <<"X">>, <<>>}
      [] i = kFieldSpeed  -> {Chars("2.5"), <<>>, <<"Z">>, Chars("1.5Z")}
      [] OTHER            -> {Chars("084.4")}

\* The number of fields written so far (the sentence identifier is never
\* empty, so an empty line has none).
FieldsWritten(s) ==
    IF Len(s) = 0 THEN 0
    ELSE Cardinality({i \in 1..Len(s) : s[i] = kNmeaFieldDelim}) + 1

\* The line has its checksum tail.
Tailed(s) == \E i \in 1..Len(s) : s[i] = kNmeaChecksumSep

\* A record that holds values no sentence of the model gives.
StaleRecord ==
    [timestamp |-> Chars("235959"), latitude |-> 1, longitude |-> 2,
     speed_mps |-> 3]

\* What the caller can hand over as the output record.
ParseOuts == {EmptyRecord, StaleRecord}

InitParse ==
    /\ line = <<>>
    /\ cs_result = "none"
    /\ DedupIdle
    /\ MainIdle
    /\ UnitIdle

\* The caller writes the next field of the sentence.
AddField ==
    /\ fn = "none"
    /\ ~Tailed(line)
    /\ FieldsWritten(line) < MaxSentenceFields
    /\ \E f \in FieldChoices(FieldsWritten(line) + 1) :
        line' = IF Len(line) = 0 THEN f ELSE line \o <<kNmeaFieldDelim>> \o f
    /\ UNCHANGED <<cs_result, dedupVars, mainVars, unitVars>>

\* The caller closes a sentence that ends with its speed field with a
\* checksum tail (parse_gprmc does not look at the digits).
AddTail ==
    /\ fn = "none"
    /\ ~Tailed(line)
    /\ FieldsWritten(line) = kFieldSpeed
    /\ line' = line \o Chars("*41")
    /\ UNCHANGED <<cs_result, dedupVars, mainVars, unitVars>>

CallParse ==
    /\ fn = "none"
    /\ \E o \in ParseOuts :
        /\ out' = o
        /\ ret' = parse_gprmc(line, o)
    /\ fn' = "parse_gprmc"
    /\ UNCHANGED <<checksumVars, dedupVars, mainVars, hem>>

NextParse == AddField \/ AddTail \/ CallParse

SpecParse == InitParse /\ [][NextParse]_vars

\* ------------------------------------------------------------------------
\* SpecCoord: nmea_to_decimal applied to coordinates put together from pieces
\* ------------------------------------------------------------------------

\* Degrees, minutes, decimals and single digits: "4807.038" and "01131.000"
\* can be put together, and so can coordinates without '.', with too few
\* characters before it, or with a second '.'.
CoordPieces ==
    {Chars("48"), Chars("07"), Chars("011"), Chars("31"), Chars(".038"),
     Chars(".000"), <<"0">>, <<"5">>}

\* The hemisphere characters the caller can hand over.
CoordHems == {"N", "S", "E", "W", "X"}

InitCoord ==
    /\ line = <<>>
    /\ cs_result = "none"
    /\ DedupIdle
    /\ MainIdle
    /\ UnitIdle

\* The caller extends the coordinate it is about to convert by one piece.
AppendCoordPiece ==
    /\ fn = "none"
    /\ \E piece \in CoordPieces :
        /\ Len(line) + Len(piece) <= MaxCoordLen
        /\ line' = line \o piece
    /\ UNCHANGED <<cs_result, dedupVars, mainVars, unitVars>>

CallToDecimal ==
    /\ fn = "none"
    /\ \E h \in CoordHems :
        /\ hem' = h
        /\ ret' = nmea_to_decimal(line, h)
    /\ fn' = "nmea_to_decimal"
    /\ UNCHANGED <<checksumVars, dedupVars, mainVars, out>>

NextCoord == AppendCoordPiece \/ CallToDecimal

SpecCoord == InitCoord /\ [][NextCoord]_vars

\* ------------------------------------------------------------------------
\* SpecChrono: dedup_last_write_wins applied to records that parse_gprmc
\* has produced
\* ------------------------------------------------------------------------

\* Time fields: ten o'clock, a second before ten with and without its
\* leading zero, and half a second past ten.
ChronoTimes ==
    {Chars("100000"), Chars("095959"), Chars("95959"), Chars("100000.5")}

ChronoLatitudes == {Chars("4807.038"), Chars("4807.039")}

\* Active fixes with these times and latitudes, and a void one.
ChronoSentences ==
    {Chars("$GPRMC,") \o t \o Chars(",A,") \o lat \o Chars(",N,01131.000,E,2.5")
        : t \in ChronoTimes, lat \in ChronoLatitudes}
    \cup {Chars("$GPRMC,100000,V,4807.038,N,01131.000,E,2.5")}

InitChrono ==
    /\ line = <<>>
    /\ cs_result = "none"
    /\ DedupIdle
    /\ MainIdle
    /\ UnitIdle

\* The caller parses a sentence and, as main does, keeps the record when
\* parse_gprmc returns true.
ParseRecord ==
    /\ called = "none"
    /\ Len(records) < MaxRecs
    /\ \E s \in ChronoSentences :
        \E parsed \in {parse_gprmc(s, EmptyRecord)} :
            /\ line' = s
            /\ records' = IF parsed.ret THEN Append(records, parsed.out)
                          ELSE records
    /\ UNCHANGED <<cs_result, epsilon, called, result, scan, mainVars, unitVars>>

NextChrono == ParseRecord \/ CallLastWriteWins

SpecChrono == InitChrono /\ [][NextChrono]_vars

\* ------------------------------------------------------------------------
\* Spec: main, over files whose lines come from InputLines
\* ------------------------------------------------------------------------

\* Bit k of the 8-bit XOR of a and b.
XorBit(a, b, k) == (((a \div (2 ^ k)) + (b \div (2 ^ k))) % 2) * (2 ^ k)

Xor8(a, b) ==
    XorBit(a, b, 0) + XorBit(a, b, 1) + XorBit(a, b, 2) + XorBit(a, b, 3)
    + XorBit(a, b, 4) + XorBit(a, b, 5) + XorBit(a, b, 6) + XorBit(a, b, 7)

\* The XOR of a sequence of characters' bytes, by halves.
RECURSIVE XorFold(_)
XorFold(bytes) ==
    IF Len(bytes) = 0 THEN 0
    ELSE IF Len(bytes) = 1 THEN Ord[bytes[1]]
    ELSE LET half  == Len(bytes) \div 2
             left  == XorFold(SubSeq(bytes, 1, half))
             right == XorFold(SubSeq(bytes, half + 1, Len(bytes)))
         IN  Xor8(left, right)

HexDigits == Chars("0123456789ABCDEF")

\* The two upper-case hexadecimal digits of a byte.
HexByte(n) == <<HexDigits[(n \div 16) + 1], HexDigits[(n % 16) + 1]>>

\* The NMEA checksum of a sentence body that starts with '$'.
ChecksumOf(body) == XorFold(SubSeq(body, 2, Len(body)))

\* The body followed by '*' and its checksum, or by a checksum that is off
\* by one.
Sealed(body)    == body \o <<"*">> \o HexByte(ChecksumOf(body))
Corrupted(body) == body \o <<"*">> \o HexByte((ChecksumOf(body) + 1) % 256)

\* Sentence bodies: three fixes (two of them with the same timestamp and
\* latitudes a thousandth of a minute apart, one in the other hemispheres
\* with an empty speed), a void fix, two known-but-unsupported sentences,
\* an unknown sentence, a fix cut after three fields and a fix whose
\* latitude is not a number.
BodyFixA     == Chars("$GPRMC,100000,A,4807.038,N,01131.000,E,2.5,084.4")
BodyFixA2    == Chars("$GPRMC,100000,A,4807.039,N,01131.000,E,1.5,084.4")
BodyFixB     == Chars("$GNRMC,095959,A,4807.038,S,01131.000,W,,084.4")
BodyVoid     == Chars("$GPRMC,100001,V,4807.038,N,01131.000,E,2.5,084.4")
BodyGGA      == Chars("$GPGGA,100000,4807.038,N,01131.000,E,1,08")
BodyGSA      == Chars("$GNGSA,A,3")
BodyVTG      == Chars("$GPVTG,054.7,T")
BodyShort    == Chars("$GPRMC,100000,A")
BodyBadLat   == Chars("$GPRMC,100000,A,ZZ,N,01131.000,E,2.5,084.4")

\* What std::getline can deliver: each body with its checksum, corrupted
\* and truncated sentences, a sentence without its '$', a CR-terminated
\* sentence, and blank lines.
InputLines ==
    {Sealed(b) : b \in {BodyFixA, BodyFixA2, BodyFixB, BodyVoid, BodyGGA,
                        BodyGSA, BodyVTG, BodyShort, BodyBadLat}}
    \cup {Corrupted(BodyFixA), Corrupted(BodyGGA)}
    \cup {BodyFixA,
          BodyFixA \o Chars("*6"),
          SubSeq(Sealed(BodyFixA), 2, Len(Sealed(BodyFixA)))}
    \cup {Sealed(BodyFixB) \o <<"\r">>}
    \cup {<<>>, <<"\r">>}

\* 1e-5 degrees, in units of 1/300000 degree.
kSpatialEpsilon == 3

Init ==
    /\ line = <<>>
    /\ cs_result = "none"
    /\ DedupIdle
    /\ nr_result = "none"
    /\ parse_ret = "none"
    /\ pc = "start"
    /\ argc \in 1..(MaxFiles + 1)
    /\ argi = 1
    /\ lines_total = 0
    /\ checksum_fail = 0
    /\ not_relevant = 0
    /\ parse_fail = 0
    /\ all_records = <<>>
    /\ deduped = <<>>
    /\ route = <<>>
    /\ exit_code = -1
    /\ url = <<>>
    /\ mono = MonoStart
    /\ UnitIdle

\* `if (argc < 2) { usage; return 1; }`
CheckArgs ==
    /\ pc = "start"
    /\ IF argc < 2
       THEN pc' = "done" /\ exit_code' = 1
       ELSE pc' = "open" /\ exit_code' = exit_code
    /\ UNCHANGED <<unitVars, checksumVars, dedupVars, gateVars, argc, argi, counterVars,
                   all_records, deduped, route, url, mono>>

\* The for loop with `return 1` in place of the continue for a file that
\* does not open.
OpenFile_failure_fatal ==
    /\ pc = "open"
    /\ argi < argc
    /\ \E opened \in BOOLEAN :
        IF opened
        THEN pc' = "getline" /\ argi' = argi /\ exit_code' = exit_code
        ELSE pc' = "done" /\ argi' = argi /\ exit_code' = 1
    /\ UNCHANGED <<unitVars, checksumVars, dedupVars, gateVars, argc, counterVars,
                   all_records, deduped, route, url, mono>>

\* One turn of the for loop up to the while loop: the file opens, or it
\* does not and the loop continues with the next argument.
OpenFile ==
    /\ pc = "open"
    /\ argi < argc
    /\ \E opened \in BOOLEAN :
        IF opened
        THEN pc' = "getline" /\ argi' = argi
        ELSE pc' = "open" /\ argi' = argi + 1
    /\ UNCHANGED <<unitVars, checksumVars, dedupVars, gateVars, argc, counterVars,
                   all_records, stageVars, mono>>

\* line with a trailing CR removed.
StripCR(raw) ==
    IF Len(raw) > 0 /\ raw[Len(raw)] = "\r"
    THEN SubSeq(raw, 1, Len(raw) - 1) ELSE raw

\* What the body of the while loop does with a non-blank line, from
\* `++lines_total` to the continue or the push_back that ends the turn:
\* the results of the calls it makes ("none" for a call it does not make),
\* the increment of each counter, and the records it appends.
Turn(cs, nr, pr, pf, cf, nrel, recs) ==
    [cs_result |-> cs, nr_result |-> nr, parse_ret |-> pr,
     parse_fail |-> pf, checksum_fail |-> cf, not_relevant |-> nrel,
     pushed |-> recs]

\* The loop body with the two checksum counters exchanged.
loop_body_swapped(stripped) ==
    LET cs == verify_checksum(stripped) IN
    IF cs = "kIncomplete" THEN Turn(cs, "none", "none", 0, 1, 0, <<>>)
    ELSE IF cs = "kMismatch" THEN Turn(cs, "none", "none", 1, 0, 0, <<>>)
    ELSE IF is_not_relevant(stripped) THEN Turn(cs, "true", "none", 0, 0, 1, <<>>)
    ELSE LET parsed == parse_gprmc(stripped, EmptyRecord) IN
         IF ~parsed.ret THEN Turn(cs, "false", "false", 1, 0, 0, <<>>)
         ELSE Turn(cs, "false", "true", 0, 0, 0, <<parsed.out>>)

\* The loop body with the classifier consulted before the checksum.
loop_body_classify_first(stripped) ==
    LET cs == verify_checksum(stripped) IN
    IF is_not_relevant(stripped) THEN Turn(cs, "true", "none", 0, 0, 1, <<>>)
    ELSE IF cs = "kIncomplete" THEN Turn(cs, "false", "none", 1, 0, 0, <<>>)
    ELSE IF cs = "kMismatch" THEN Turn(cs, "false", "none", 0, 1, 0, <<>>)
    ELSE LET parsed == parse_gprmc(stripped, EmptyRecord) IN
         IF ~parsed.ret THEN Turn(cs, "false", "false", 1, 0, 0, <<>>)
         ELSE Turn(cs, "false", "true", 0, 0, 0, <<parsed.out>>)

\* The loop body without the continue after `++not_relevant`.
loop_body_fall_through(stripped) ==
    LET cs == verify_checksum(stripped) IN
    IF cs = "kIncomplete" THEN Turn(cs, "none", "none", 1, 0, 0, <<>>)
    ELSE IF cs = "kMismatch" THEN Turn(cs, "none", "none", 0, 1, 0, <<>>)
    ELSE LET nr     == is_not_relevant(stripped)
             parsed == parse_gprmc(stripped, EmptyRecord)
         IN  IF ~parsed.ret
             THEN Turn(cs, IF nr THEN "true" ELSE "false", "false",
                       1, 0, IF nr THEN 1 ELSE 0, <<>>)
             ELSE Turn(cs, IF nr THEN "true" ELSE "false", "true",
                       0, 0, IF nr THEN 1 ELSE 0, <<parsed.out>>)

\* The end of the loop body: what parse_gprmc returned decides between
\* the failure counter and the push_back.
after_parse(cs, parsed) ==
    IF ~parsed.ret THEN Turn(cs, "false", "false", 1, 0, 0, <<>>)
    ELSE Turn(cs, "false", "true", 0, 0, 0, <<parsed.out>>)

\* The loop body from the switch on the checksum result on.
after_checksum(stripped, cs) ==
    IF cs = "kIncomplete" THEN Turn(cs, "none", "none", 1, 0, 0, <<>>)
    ELSE IF cs = "kMismatch" THEN Turn(cs, "none", "none", 0, 1, 0, <<>>)
    ELSE IF is_not_relevant(stripped) THEN Turn(cs, "true", "none", 0, 0, 1, <<>>)
    ELSE after_parse(cs, parse_gprmc(stripped, EmptyRecord))

loop_body(stripped) == after_checksum(stripped, verify_checksum(stripped))

\* One turn of the while loop: std::getline delivers raw, its trailing CR
\* is removed, a blank line is skipped, and any other line is counted and
\* goes through the loop body.
ReadLine(raw) ==
    /\ pc = "getline"
    /\ LET stripped == StripCR(raw) IN
        /\ line' = stripped
        /\ IF Len(stripped) = 0 THEN
               /\ cs_result' = "none"
               /\ nr_result' = "none"
               /\ parse_ret' = "none"
               /\ UNCHANGED <<counterVars, all_records>>
           ELSE
               \E turn \in {loop_body(stripped)} :
               /\ lines_total < MaxLines
               /\ lines_total' = lines_total + 1
               /\ cs_result' = turn.cs_result
               /\ nr_result' = turn.nr_result
               /\ parse_ret' = turn.parse_ret
               /\ parse_fail' = parse_fail + turn.parse_fail
               /\ checksum_fail' = checksum_fail + turn.checksum_fail
               /\ not_relevant' = not_relevant + turn.not_relevant
               /\ all_records' = all_records \o turn.pushed
    /\ UNCHANGED <<unitVars, dedupVars, pc, argc, argi, stageVars>>

GetLine ==
    /\ \E raw \in InputLines : ReadLine(raw)
    /\ UNCHANGED mono

\* The end of a file with a record list of its own for each file.
EndOfFile_list_per_file ==
    /\ pc = "getline"
    /\ pc' = "open"
    /\ argi' = argi + 1
    /\ all_records' = <<>>
    /\ UNCHANGED <<unitVars, checksumVars, dedupVars, gateVars, argc, counterVars,
                   stageVars, mono>>

\* The end of a file without the `++argi` of the for loop.
EndOfFile_same_file ==
    /\ pc = "getline"
    /\ pc' = "open"
    /\ UNCHANGED <<unitVars, checksumVars, dedupVars, gateVars, argc, argi, counterVars,
                   all_records, stageVars, mono>>

\* std::getline fails: the while loop ends and the for loop goes on.
EndOfFile ==
    /\ pc = "getline"
    /\ pc' = "open"
    /\ argi' = argi + 1
    /\ UNCHANGED <<unitVars, checksumVars, dedupVars, gateVars, argc, counterVars,
                   all_records, stageVars, mono>>

\* Stage 2 and stage 3: both dedup calls, the summary, the return for an
\* empty route, and otherwise the table, the URL and the return.
Stages ==
    /\ pc = "open"
    /\ argi >= argc
    /\ deduped' = dedup_last_write_wins(all_records)
    /\ route' = dedup_spatial(dedup_last_write_wins(all_records), kSpatialEpsilon)
    /\ url' = IF Len(route') = 0 THEN <<>> ELSE build_google_maps_url(route')
    /\ exit_code' = 0
    /\ pc' = "done"
    /\ UNCHANGED <<unitVars, checksumVars, dedupVars, gateVars, argc, argi, counterVars,
                   all_records>>

Finish ==
    /\ Stages
    /\ UNCHANGED mono

Next == CheckArgs \/ OpenFile \/ GetLine \/ EndOfFile \/ Finish

Spec == Init /\ [][Next]_vars

\* The same program run to its end. Every step of main other than a
\* successful std::getline is taken once it can be: argv is a finite array
\* and each file is finite, so std::getline fails after finitely many
\* lines; no fairness is asked of GetLine.
SpecFair ==
    /\ Init
    /\ [][Next]_vars
    /\ WF_vars(CheckArgs)
    /\ WF_vars(OpenFile)
    /\ WF_vars(EndOfFile)
    /\ WF_vars(Finish)

\* ------------------------------------------------------------------------
\* SpecUrl: build_google_maps_url applied to every short route
\* ------------------------------------------------------------------------

\* Coordinates in units of 1/300000 degree: zero, the smallest step either
\* side of it, a position with a fraction that does not end after six
\* places, and the ends of the ranges (90 and -180 degrees).
UrlLatitudes  == {0, -1, 14435191, 27000000}
UrlLongitudes == {2, -3457500, -54000000}

UrlRecords ==
    {[timestamp |-> <<"1">>, latitude |-> lat, longitude |-> lon, speed_mps |-> 0] :
        lat \in UrlLatitudes, lon \in UrlLongitudes}

InitUrl ==
    /\ line = <<>>
    /\ cs_result = "none"
    /\ DedupIdle
    /\ MainIdle
    /\ UnitIdle

\* The caller appends one point to the route it is about to hand over.
AddRoutePoint ==
    /\ fn = "none"
    /\ Len(records) < MaxRecs
    /\ \E r \in UrlRecords : records' = Append(records, r)
    /\ UNCHANGED <<unitVars, epsilon, called, result, scan, checksumVars, mainVars>>

CallBuildUrl ==
    /\ fn = "none"
    /\ fn' = "build_google_maps_url"
    /\ ret' = build_google_maps_url(records)
    /\ UNCHANGED <<hem, out, checksumVars, dedupVars, mainVars>>

NextUrl == AddRoutePoint \/ CallBuildUrl

SpecUrl == InitUrl /\ [][NextUrl]_vars

\* ------------------------------------------------------------------------
\* SpecFields: the fields parse_gprmc sees in every short ending of a line
\* ------------------------------------------------------------------------

\* What a line starts with: nothing, or the first seven fields of a fix.
FieldStems == {<<>>, Chars("$GPRMC,1,A,4807.038,N,01131.000,E")}

FieldAlphabet == {",", "*", "2", "4"}

\* The stem the line was started with.
StemOf(s) ==
    CHOOSE stem \in FieldStems :
        /\ Len(stem) <= Len(s)
        /\ SubSeq(s, 1, Len(stem)) = stem
        /\ \A other \in FieldStems :
               (Len(other) <= Len(s) /\ SubSeq(s, 1, Len(other)) = other)
                   => Len(other) <= Len(stem)

InitFields ==
    /\ line \in FieldStems
    /\ cs_result = "none"
    /\ DedupIdle
    /\ MainIdle
    /\ UnitIdle

\* The caller extends the sentence by one character.
TypeFieldChar ==
    /\ fn = "none"
    /\ Len(line) < Len(StemOf(line)) + MaxLen
    /\ \E c \in FieldAlphabet : line' = Append(line, c)
    /\ UNCHANGED <<cs_result, dedupVars, mainVars, unitVars>>

CallFields ==
    /\ fn = "none"
    /\ fn' = "gprmc_fields"
    /\ ret' = gprmc_fields(line)
    /\ UNCHANGED <<checksumVars, dedupVars, mainVars, hem, out>>

NextFields == TypeFieldChar \/ CallFields

SpecFields == InitFields /\ [][NextFields]_vars

\* ------------------------------------------------------------------------
\* SpecScan: dedup_spatial step by step on every short list of positions
\* ------------------------------------------------------------------------

ScanRecords ==
    {[timestamp |-> <<"1">>, latitude |-> p[1], longitude |-> p[2], speed_mps |-> 0] :
        p \in DedupPositions}

InitScan ==
    /\ line = <<>>
    /\ cs_result = "none"
    /\ DedupIdle
    /\ MainIdle
    /\ UnitIdle

\* The caller appends one record to the list it is about to hand over.
AddScanRecord ==
    /\ called = "none"
    /\ Len(records) < MaxRecs
    /\ \E r \in ScanRecords : records' = Append(records, r)
    /\ UNCHANGED <<unitVars, epsilon, called, result, scan, checksumVars, mainVars>>

\* The call up to the loop: an empty list is returned at once, otherwise
\* the first record is kept and the loop starts at the second.
ScanEnter ==
    /\ called = "none"
    /\ \E e \in DedupEpsilons : epsilon' = e
    /\ IF Len(records) = 0
       THEN called' = "dedup_spatial" /\ result' = <<>> /\ scan' = 0
       ELSE called' = "scan" /\ result' = <<records[1]>> /\ scan' = 2
    /\ UNCHANGED <<unitVars, records, checksumVars, mainVars>>

\* One turn of the loop.
ScanStep ==
    /\ called = "scan"
    /\ scan <= Len(records)
    /\ result' = spatial_step(records, epsilon, scan, result)
    /\ scan' = scan + 1
    /\ UNCHANGED <<unitVars, records, epsilon, called, checksumVars, mainVars>>

\* The loop ends and result is returned.
ScanReturn ==
    /\ called = "scan"
    /\ scan > Len(records)
    /\ called' = "dedup_spatial"
    /\ scan' = 0
    /\ UNCHANGED <<unitVars, records, epsilon, result, checksumVars, mainVars>>

NextScan == AddScanRecord \/ ScanEnter \/ ScanStep \/ ScanReturn

SpecScan == InitScan /\ [][NextScan]_vars

\* ------------------------------------------------------------------------
\* SpecStages: stage 2 and stage 3 of main on every short list of records
\* ------------------------------------------------------------------------

\* Latitudes at, within and beyond kSpatialEpsilon of each other.
StageLatitudes == {0, kSpatialEpsilon, kSpatialEpsilon + 1}

\* Records the parser may have returned: timestamps whose string order
\* differs from their order of arrival and of length.
StageRecords ==
    {[timestamp |-> t, latitude |-> lat, longitude |-> 0, speed_mps |-> 0] :
        t \in DedupTimestamps, lat \in StageLatitudes}

\* main in its while loop over the only file.
InitStages ==
    /\ line = <<>>
    /\ cs_result = "none"
    /\ DedupIdle
    /\ nr_result = "none"
    /\ parse_ret = "none"
    /\ pc = "getline"
    /\ argc = 2
    /\ argi = 1
    /\ lines_total = 0
    /\ checksum_fail = 0
    /\ not_relevant = 0
    /\ parse_fail = 0
    /\ all_records = <<>>
    /\ deduped = <<>>
    /\ route = <<>>
    /\ exit_code = -1
    /\ url = <<>>
    /\ mono = MonoStart
    /\ UnitIdle

\* A turn of the while loop for a line that passes every gate: the line is
\* counted and the record parse_gprmc filled in is appended.
PushRecord ==
    /\ pc = "getline"
    /\ Len(all_records) < MaxRecs
    /\ \E rec \in StageRecords :
        all_records' = Append(all_records, rec)
    /\ lines_total' = lines_total + 1
    /\ cs_result' = "kOk"
    /\ nr_result' = "false"
    /\ parse_ret' = "true"
    /\ UNCHANGED <<unitVars, line, dedupVars, pc, argc, argi, checksum_fail,
                   not_relevant, parse_fail, stageVars, mono>>

NextStages == PushRecord \/ EndOfFile \/ Finish

SpecStages == InitStages /\ [][NextStages]_vars

\* ------------------------------------------------------------------------
\* SpecBoth: the single-file program and the modular one on the same lines
\* ------------------------------------------------------------------------

\* The end of the loop body of the single-file program: what parse_gprmc
\* returned decides between the failure counter and the push_back.
mono_after_parse(cs, parsed) ==
    IF ~parsed.ret THEN Turn(cs, "false", "false", 1, 0, 0, <<>>)
    ELSE Turn(cs, "false", "true", 0, 0, 0, <<parsed.out>>)

\* The loop body of the single-file program from the switch on the checksum
\* result on, with its inline classification.
mono_after_checksum(stripped, cs) ==
    IF cs = "kIncomplete" THEN Turn(cs, "none", "none", 1, 0, 0, <<>>)
    ELSE IF cs = "kMismatch" THEN Turn(cs, "none", "none", 0, 1, 0, <<>>)
    ELSE LET comma == find(stripped, ",")
             id    == Slice(stripped, 1, comma - 1)
         IN  IF comma # 0
                /\ (id = Chars("$GPGSA") \/ id = Chars("$GPGGA")
                    \/ id = Chars("$GNGSA") \/ id = Chars("$GNGGA"))
             THEN Turn(cs, "true", "none", 0, 0, 1, <<>>)
             ELSE mono_after_parse(cs, mono_parse_gprmc(stripped, EmptyRecord))

\* The body of the while loop of the single-file program for a non-blank
\* line.
mono_loop_body(stripped) ==
    mono_after_checksum(stripped, mono_verify_checksum(stripped))

\* One turn of the while loop of the single-file program on what
\* std::getline delivered.
mono_read_line(raw) ==
    LET stripped == StripCR(raw) IN
    IF Len(stripped) = 0 THEN mono' = mono
    ELSE \E turn \in {mono_loop_body(stripped)} :
         mono' = [mono EXCEPT !.lines_total   = @ + 1,
                              !.parse_fail    = @ + turn.parse_fail,
                              !.checksum_fail = @ + turn.checksum_fail,
                              !.not_relevant  = @ + turn.not_relevant,
                              !.all_records   = @ \o turn.pushed]

\* Stage 2 of the single-file program.
mono_stages(m) ==
    LET deduped_ == mono_dedup_last_write_wins(m.all_records) IN
    [m EXCEPT !.deduped = deduped_,
              !.route   = mono_dedup_spatial(deduped_, mono_kSpatialEpsilon)]

\* Both programs read the same line.
BothGetLine ==
    \E raw \in InputLines :
        /\ ReadLine(raw)
        /\ mono_read_line(raw)

\* Both programs run their stages 2 and 3.
BothFinish ==
    /\ Stages
    /\ mono' = mono_stages(mono)

NextBoth == BothGetLine \/ EndOfFile \/ BothFinish

SpecBoth == InitStages /\ [][NextBoth]_vars

\* ------------------------------------------------------------------------
\* Properties of verify_checksum (SpecChecksum)
\* ------------------------------------------------------------------------

\* What the properties say about a line, stated without the code's helpers.
StartsWithDollar(s) == Len(s) > 0 /\ s[1] = "$"

HasStar(s) == \E i \in 1..Len(s) : s[i] = "*"

LastStar(s) ==
    CHOOSE i \in 1..Len(s) : s[i] = "*" /\ \A j \in (i + 1)..Len(s) : s[j] # "*"

CharsAfterLastStar(s) == Len(s) - LastStar(s)

HexValue ==
    [c \in {"0", "1", "2", "3", "4", "5", "6", "7", "8", "9", "A", "B", "C",
             "D", "E", "F", "a", "b", "c", "d", "e", "f"} |->
        CASE c = "0" -> 0 [] c = "1" -> 1 [] c = "2" -> 2 [] c = "3" -> 3
          [] c = "4" -> 4 [] c = "5" -> 5 [] c = "6" -> 6 [] c = "7" -> 7
          [] c = "8" -> 8 [] c = "9" -> 9 [] c \in {"A", "a"} -> 10
          [] c \in {"B", "b"} -> 11 [] c \in {"C", "c"} -> 12
          [] c \in {"D", "d"} -> 13 [] c \in {"E", "e"} -> 14
          [] c \in {"F", "f"} -> 15]

\* Two hexadecimal digits stand immediately after the last '*'.
TwoHexAfterLastStar(s) ==
    /\ HasStar(s)
    /\ CharsAfterLastStar(s) >= 2
    /\ s[LastStar(s) + 1] \in DOMAIN HexValue
    /\ s[LastStar(s) + 2] \in DOMAIN HexValue

DeclaredByte(s) ==
    16 * HexValue[s[LastStar(s) + 1]] + HexValue[s[LastStar(s) + 2]]

\* The bytes strictly between the leading '$' and the last '*'.
BodyOf(s) == SubSeq(s, 2, LastStar(s) - 1)

\* C1: for every line that starts with '$' and has two hexadecimal digits
\* immediately after its last '*', verify_checksum returns Ok exactly when
\* the 8-bit XOR of the bytes strictly between the '$' and the last '*'
\* equals the declared hex byte, and Mismatch otherwise.
C1_OkIffXorMatches ==
    (cs_result # "none" /\ StartsWithDollar(line) /\ TwoHexAfterLastStar(line))
        => cs_result = IF XorFold(BodyOf(line)) = DeclaredByte(line)
                       THEN "kOk" ELSE "kMismatch"

\* A line with a two-byte body whose XOR equals the declared byte was
\* verified.
C1_Witness ==
    /\ cs_result = "kOk"
    /\ StartsWithDollar(line) /\ TwoHexAfterLastStar(line)
    /\ Len(BodyOf(line)) = 2
    /\ BodyOf(line)[1] # BodyOf(line)[2]

\* C2: verify_checksum returns Incomplete for every line that is empty or
\* does not start with '$', for every line without a '*', and for every
\* line in which fewer than 2 characters follow the last '*'.
C2_IncompleteWhenStructureMissing ==
    (cs_result # "none"
     /\ (\/ ~StartsWithDollar(line)
         \/ ~HasStar(line)
         \/ CharsAfterLastStar(line) < 2))
        => cs_result = "kIncomplete"

\* A line that starts with '$' and has exactly one hex digit after its
\* last '*' was verified.
C2_Witness ==
    /\ cs_result = "kIncomplete"
    /\ StartsWithDollar(line) /\ HasStar(line)
    /\ CharsAfterLastStar(line) = 1
    /\ line[Len(line)] \in DOMAIN HexValue

\* C3: verify_checksum returns Incomplete whenever the two characters
\* immediately following the last '*' are not both hexadecimal digits.
C3_IncompleteWhenNotTwoHexDigits ==
    (cs_result # "none"
     /\ StartsWithDollar(line) /\ HasStar(line)
     /\ CharsAfterLastStar(line) >= 2
     /\ ~TwoHexAfterLastStar(line))
        => cs_result = "kIncomplete"

\* The '*HH' group is the end of the line.
EndsWithStarHH(s) == TwoHexAfterLastStar(s) /\ CharsAfterLastStar(s) = 2

\* C4 as stated: every line with no leading '$' or that does not end with
\* '*' followed by two hex digits is Incomplete.
C4_IncompleteUnlessStarHHSuffix ==
    (cs_result # "none" /\ (~StartsWithDollar(line) \/ ~EndsWithStarHH(line)))
        => cs_result = "kIncomplete"

\* C4 amended: every line with no leading '$', with no '*', or with fewer
\* than two characters after its last '*' is Incomplete; and a line with a
\* leading '$' whose last '*' is followed by two hex digits is never
\* Incomplete, whatever characters follow the two digits.
C4_IncompleteUnlessStarAndTwoChars ==
    /\ (cs_result # "none"
        /\ (\/ ~StartsWithDollar(line)
            \/ ~HasStar(line)
            \/ CharsAfterLastStar(line) < 2))
           => cs_result = "kIncomplete"
    /\ (cs_result # "none" /\ StartsWithDollar(line)
        /\ TwoHexAfterLastStar(line) /\ CharsAfterLastStar(line) > 2)
           => cs_result \in {"kOk", "kMismatch"}

\* A line whose '*HH' group is followed by one more character was verified
\* and found Ok.
C4_Witness ==
    /\ cs_result = "kOk"
    /\ StartsWithDollar(line) /\ TwoHexAfterLastStar(line)
    /\ CharsAfterLastStar(line) = 3

\* ------------------------------------------------------------------------
\* Properties of the dedup functions (SpecDedup)
\* ------------------------------------------------------------------------

\* Lexicographic order on strings: at the first position where a and b
\* differ, either a has ended or its byte is the smaller one.
LexLess(a, b) ==
    \E k \in 1..(Len(b)) :
        /\ \A i \in 1..(k - 1) : i <= Len(a) /\ a[i] = b[i]
        /\ (k > Len(a) \/ (k <= Len(a) /\ Ord[a[k]] < Ord[b[k]]))

TimestampsOf(recs) == {recs[i].timestamp : i \in 1..Len(recs)}

\* C5: dedup_last_write_wins returns exactly one record per distinct
\* timestamp string of its input, ordered by timestamp string strictly
\* ascending, and the set of output timestamps equals the set of input
\* timestamps.
C5_OnePerTimestampAscending ==
    called = "dedup_last_write_wins" =>
        /\ TimestampsOf(result) = TimestampsOf(records)
        /\ Len(result) = Cardinality(TimestampsOf(records))
        /\ \A i \in 1..Len(result) : \A j \in (i + 1)..Len(result) :
               LexLess(result[i].timestamp, result[j].timestamp)

\* A list with a repeated timestamp, given in descending timestamp order
\* with "10" before "1", was deduplicated.
C5_Witness ==
    /\ called = "dedup_last_write_wins"
    /\ Len(records) = 3
    /\ records[1].timestamp = <<"1", "0">>
    /\ records[2].timestamp = <<"1">>
    /\ records[3].timestamp = <<"1">>
    /\ Len(result) = 2

\* The last position of a timestamp in a record list.
LastIndexOf(recs, t) ==
    CHOOSE i \in 1..Len(recs) :
        /\ recs[i].timestamp = t
        /\ \A j \in (i + 1)..Len(recs) : recs[j].timestamp # t

\* C6: for every timestamp of the input, the output record with that
\* timestamp equals in all fields the last input record with that
\* timestamp.
C6_LastWriteWins ==
    called = "dedup_last_write_wins" =>
        \A t \in TimestampsOf(records) :
            \A k \in 1..Len(result) :
                result[k].timestamp = t
                    => result[k] = records[LastIndexOf(records, t)]

\* Three different records with one timestamp were deduplicated to the
\* third of them.
C6_Witness ==
    /\ called = "dedup_last_write_wins"
    /\ Len(records) = 3
    /\ Cardinality(TimestampsOf(records)) = 1
    /\ Cardinality({records[i] : i \in 1..3}) = 3
    /\ result = <<records[3]>>

\* The absolute difference of a and b exceeds e.
Beyond(a, b, e) == a - b > e \/ b - a > e

\* r differs from q by strictly more than e in latitude or in longitude.
Far(r, q, e) ==
    Beyond(r.latitude, q.latitude, e) \/ Beyond(r.longitude, q.longitude, e)

\* The greatest member of a non-empty set of numbers.
Greatest(S) == CHOOSE m \in S : \A x \in S : x <= m

\* The records of recs at the indices in K, in index order.
RECURSIVE Pick(_, _)
Pick(recs, K) ==
    IF K = {} THEN <<>>
    ELSE Append(Pick(recs, K \ {Greatest(K)}), recs[Greatest(K)])

\* K is the set of kept indices: the first, and every later index whose
\* record is far from the record of the greatest kept index before it.
IsKeptSet(recs, K, e) ==
    /\ 1 \in K
    /\ \A i \in 2..Len(recs) :
           i \in K <=> Far(recs[i], recs[Greatest({j \in K : j < i})], e)

\* C7: dedup_spatial keeps the first input record, and keeps each later
\* record if and only if it differs from the most recently kept record by
\* strictly more than epsilon in latitude or in longitude.
C7_KeptIffBeyondEpsilon ==
    called = "dedup_spatial" =>
        IF records = <<>> THEN result = <<>>
        ELSE \E K \in SUBSET (1..Len(records)) :
                /\ IsKeptSet(records, K, epsilon)
                /\ result = Pick(records, K)

\* With epsilon 1, a record exactly 1 away from the first in both axes was
\* dropped, and the next one, more than 1 away from the first in latitude
\* alone, was kept.
C7_Witness ==
    /\ called = "dedup_spatial"
    /\ epsilon = 1
    /\ Len(records) = 3
    /\ records[1].latitude = 0 /\ records[1].longitude = 1
    /\ records[2].latitude = 1 /\ records[2].longitude = 0
    /\ records[3].latitude = 2 /\ records[3].longitude = 0
    /\ result = <<records[1], records[3]>>

\* C8: dedup_spatial is idempotent: applied to its own output with the same
\* epsilon it returns that output.
C8_SpatialIdempotent ==
    called = "dedup_spatial" => dedup_spatial(result, epsilon) = result

\* A list from which dedup_spatial dropped a record between two kept ones
\* was deduplicated.
C8_Witness ==
    /\ called = "dedup_spatial"
    /\ Len(records) = 3
    /\ result = <<records[1], records[3]>>
    /\ records[2] # records[1]

\* ------------------------------------------------------------------------
\* Properties of the per-line loop of main (Spec)
\* ------------------------------------------------------------------------

\* This step read a non-blank line.
LineCounted == lines_total' = lines_total + 1

\* By how much this step raised each of the four outcomes.
ChecksumFailDelta == checksum_fail' - checksum_fail
NotRelevantDelta  == not_relevant' - not_relevant
ParseFailDelta    == parse_fail' - parse_fail
RecordsDelta      == Len(all_records') - Len(all_records)

\* The sentence identifier of a line (what precedes its first ',') is one
\* of the four known-but-unsupported ones.
HasUnsupportedId(s) ==
    \E n \in 1..Len(s) :
        /\ s[n] = ","
        /\ \A i \in 1..(n - 1) : s[i] # ","
        /\ SubSeq(s, 1, n - 1) \in
               {Chars("$GPGSA"), Chars("$GPGGA"), Chars("$GNGSA"), Chars("$GNGGA")}

\* C9: every non-blank line read raises exactly one of checksum_fail,
\* not_relevant, parse_fail and the number of records, by one, so
\* lines_total is always their sum; a line classified as unsupported raises
\* not_relevant only, never parse_fail.
C9_OneOutcomePerLine ==
    /\ [](lines_total = checksum_fail + not_relevant + parse_fail
                           + Len(all_records))
    /\ [][ /\ (pc = "getline" /\ pc' = "getline" /\ Len(line') > 0)
               => /\ LineCounted
                  /\ {ChecksumFailDelta, NotRelevantDelta, ParseFailDelta,
                       RecordsDelta} = {0, 1}
                  /\ ChecksumFailDelta + NotRelevantDelta + ParseFailDelta
                       + RecordsDelta = 1
           /\ (LineCounted /\ cs_result' = "kOk" /\ HasUnsupportedId(line'))
               => /\ NotRelevantDelta = 1
                  /\ ParseFailDelta = 0
                  /\ ChecksumFailDelta = 0
                  /\ RecordsDelta = 0 ]_vars

\* Three lines were read: one was rejected by the parser, one gave a
\* record, and the last one was classified as unsupported.
C9_Witness ==
    /\ lines_total = 3
    /\ parse_fail = 1
    /\ Len(all_records) = 1
    /\ not_relevant = 1
    /\ nr_result = "true"
    /\ parse_ret = "none"
    /\ HasUnsupportedId(line)

\* C10: a line for which verify_checksum returns Mismatch raises
\* checksum_fail and never parse_fail; a line for which it returns
\* Incomplete raises parse_fail and never checksum_fail.
C10_SeparateChecksumBuckets ==
    [][ /\ (LineCounted /\ cs_result' = "kMismatch")
           => ChecksumFailDelta = 1 /\ ParseFailDelta = 0
       /\ (LineCounted /\ cs_result' = "kIncomplete")
           => ParseFailDelta = 1 /\ ChecksumFailDelta = 0 ]_vars

\* Two lines were read, the first a Mismatch and the second Incomplete,
\* and each counter stands at one.
C10_Witness ==
    /\ lines_total = 2
    /\ cs_result = "kIncomplete"
    /\ checksum_fail = 1
    /\ parse_fail = 1

\* ------------------------------------------------------------------------
\* Properties of is_not_relevant (SpecRelevant)
\* ------------------------------------------------------------------------

\* C11: is_not_relevant returns true exactly when the line has a ',' and
\* what precedes its first ',' is one of "$GPGSA", "$GPGGA", "$GNGSA",
\* "$GNGGA"; a line without ',' gives false, also when the whole line is
\* one of the four.
C11_UnsupportedIffIdBeforeComma ==
    fn = "is_not_relevant" =>
        /\ (ret = "true") <=> HasUnsupportedId(line)
        /\ (\A i \in 1..Len(line) : line[i] # ",") => ret = "false"

\* An unsupported identifier followed by a field was classified as
\* unsupported.
C11_Witness ==
    /\ fn = "is_not_relevant"
    /\ line = Chars("$GNGGA,A")
    /\ ret = "true"

\* ------------------------------------------------------------------------
\* Properties of parse_gprmc (SpecParse)
\* ------------------------------------------------------------------------

\* The last position of the sentence before its checksum tail: the tail
\* starts at the last '*'.
TailFreeLen(s) ==
    LET stars == {i \in 1..Len(s) : s[i] = "*"} IN
    IF stars = {} THEN Len(s)
    ELSE (CHOOSE i \in stars : \A j \in stars : j <= i) - 1

\* The fields of the sentence without its tail, counted from 0 as the
\* documentation does: field k lies between the k-th ',' and the next one
\* (the start and the end of the sentence standing for the ',' before the
\* first field and after the last).
SentenceFields(s) ==
    LET end      == TailFreeLen(s)
        commas   == {i \in 1..end : s[i] = ","}
        count    == Cardinality(commas)
        comma(k) == IF k = 0 THEN 0
                    ELSE IF k > count THEN end + 1
                    ELSE CHOOSE p \in commas :
                             Cardinality({c \in commas : c <= p}) = k
    IN  [k \in 0..count |-> SubSeq(s, comma(k) + 1, comma(k + 1) - 1)]

SentenceFieldCount(s) == Cardinality(DOMAIN SentenceFields(s))

\* Field k of the sentence; the empty string when it has no such field.
SentenceField(s, k) ==
    LET end      == TailFreeLen(s)
        commas   == {i \in 1..end : s[i] = ","}
        count    == Cardinality(commas)
        comma(j) == IF j = 0 THEN 0
                    ELSE IF j > count THEN end + 1
                    ELSE CHOOSE p \in commas :
                             Cardinality({c \in commas : c <= p}) = j
    IN  IF k > count THEN <<>>
        ELSE SubSeq(s, comma(k) + 1, comma(k + 1) - 1)

\* parse_gprmc has run on the line and returned a record, or none.
Accepted == fn = "parse_gprmc" /\ ret.ret
Rejected == fn = "parse_gprmc" /\ ~ret.ret

\* C12: parse_gprmc returns no record when the status field (field 2) is
\* different from the active code 'A'.
C12_NoRecordUnlessStatusA ==
    (fn = "parse_gprmc" /\ SentenceField(line, 2) # <<"A">>) => ~ret.ret

\* A number starts at position p of s: a digit, or a '.' and a digit.
NumberAt(s, p) ==
    /\ p <= Len(s)
    /\ \/ s[p] \in {"0", "1", "2", "3", "4", "5", "6", "7", "8", "9"}
       \/ /\ s[p] = "."
          /\ p + 1 <= Len(s)
          /\ s[p + 1] \in {"0", "1", "2", "3", "4", "5", "6", "7", "8", "9"}

\* s can be read as a number: after white space and a sign, if any, a
\* number starts.
LeadsNumber(s) ==
    \E p \in 1..Len(s) :
        /\ \A i \in 1..(p - 1) : s[i] = " "
        /\ \/ NumberAt(s, p)
           \/ s[p] \in {"+", "-"} /\ NumberAt(s, p + 1)

\* The position of the first '.' of a coordinate, 0 when it has none.
FirstDot(raw) ==
    IF \E i \in 1..Len(raw) : raw[i] = "."
    THEN CHOOSE i \in 1..Len(raw) :
             raw[i] = "." /\ \A j \in 1..(i - 1) : raw[j] # "."
    ELSE 0

\* The characters before the two that precede the first '.', and the rest.
DegreePart(raw) == SubSeq(raw, 1, FirstDot(raw) - 3)
MinutePart(raw) == SubSeq(raw, FirstDot(raw) - 2, Len(raw))

\* The coordinate converts to decimal degrees: it has a '.', at least two
\* characters before it, and both of its parts can be read as numbers.
ConvertsToDegrees(raw) ==
    /\ FirstDot(raw) >= 3
    /\ LeadsNumber(DegreePart(raw))
    /\ LeadsNumber(MinutePart(raw))

\* The checks of parse_gprmc on the fields of a sentence.
AllChecksPass(s) ==
    LET fields == SentenceFields(s) IN
    /\ Cardinality(DOMAIN fields) >= 8
    /\ fields[0] \in {Chars("$GPRMC"), Chars("$GNRMC")}
    /\ Len(fields[2]) > 0
    /\ fields[2][1] = "A"
    /\ Len(fields[1]) > 0
    /\ Len(fields[4]) = 1
    /\ Len(fields[6]) = 1
    /\ ConvertsToDegrees(fields[3])
    /\ ConvertsToDegrees(fields[5])

C14_OutUntouchedOrWhole ==
    /\ Rejected => ret.out = out
    /\ (Accepted /\ out = StaleRecord) =>
           /\ ret.out.timestamp = SentenceField(line, 1)
           /\ ret.out.timestamp # StaleRecord.timestamp
           /\ ret.out.latitude # StaleRecord.latitude
           /\ ret.out.longitude # StaleRecord.longitude
           /\ ret.out.speed_mps # StaleRecord.speed_mps

\* A sentence that passes every check but the conversion of its longitude
\* was rejected, and the record handed over still has its earlier contents.
C14_Witness ==
    /\ Rejected
    /\ line = Chars("$GPRMC,100000,A,4807.038,N,01131,E,2.5")
    /\ out = StaleRecord
    /\ ret.out = StaleRecord

\* The value of a decimal digit.
DigitOf(c) == CHOOSE n \in 0..9 : Chars("0123456789")[n + 1] = c

AllDigits(s) ==
    \A i \in 1..Len(s) :
        s[i] \in {"0", "1", "2", "3", "4", "5", "6", "7", "8", "9"}

\* The number a string of digits stands for.
RECURSIVE DigitsNumber(_)
DigitsNumber(s) ==
    IF Len(s) = 0 THEN 0
    ELSE DigitOf(s[Len(s)]) + 10 * DigitsNumber(SubSeq(s, 1, Len(s) - 1))

\* The string is a number and nothing else: digits with at most one '.',
\* and at least one digit.
EntirelyNumeric(s) ==
    /\ \A i \in 1..Len(s) :
           s[i] \in {"0", "1", "2", "3", "4", "5", "6", "7", "8", "9", "."}
    /\ Cardinality({i \in 1..Len(s) : s[i] = "."}) <= 1
    /\ \E i \in 1..Len(s) : s[i] # "."

\* The coordinate has a degree part and a minute part, and one of them is
\* not entirely numeric.
HasNonNumericPart(raw) ==
    /\ FirstDot(raw) >= 3
    /\ \/ ~EntirelyNumeric(DegreePart(raw))
       \/ ~EntirelyNumeric(MinutePart(raw))

\* C16: a sentence in which the degree part or the minute part of field 3
\* or of field 5 is not entirely numeric is rejected, also when the part
\* starts with digits and has another character later.
C16_RejectedWhenPartNotNumeric ==
    (fn = "parse_gprmc"
        /\ \/ HasNonNumericPart(SentenceField(line, 3))
           \/ HasNonNumericPart(SentenceField(line, 5)))
    => ~ret.ret

\* The coordinate is empty, has no '.', or has fewer than two characters
\* before its first '.'.
Malformed(raw) == FirstDot(raw) < 3

\* C17: the conversion of a coordinate that is empty, has no '.', or has
\* fewer than two characters before its first '.' fails, and parse_gprmc
\* rejects a sentence whose field 3 or field 5 is such a coordinate.
C17_RejectedWhenMalformedCoordinate ==
    fn = "parse_gprmc" =>
        \A k \in {3, 5} :
            LET raw == SentenceField(line, k) IN
            Malformed(raw) =>
                /\ \A h \in CoordHems : nmea_to_decimal(raw, h).nan
                /\ ~ret.ret

\* A sentence that passes every other check, and whose longitude has no
\* '.', was rejected.
C17_Witness ==
    /\ Rejected
    /\ line = Chars("$GPRMC,100000,A,4807.038,N,01131,E,2.5,084.4")
    /\ Malformed(SentenceField(line, 5))

\* C18: a sentence whose field 4 or field 6 is a single character other
\* than 'N', 'S', 'E' and 'W' is rejected.
C18_RejectedWhenHemisphereUnknown ==
    (fn = "parse_gprmc"
        /\ \E k \in {4, 6} :
               /\ Len(SentenceField(line, k)) = 1
               /\ SentenceField(line, k)[1] \notin {"N", "S", "E", "W"})
    => ~ret.ret

\* The longest start of s that is entirely numeric (empty when s does not
\* start with a number).
NumericStart(s) ==
    LET fits == {n \in 0..Len(s) : n = 0 \/ EntirelyNumeric(SubSeq(s, 1, n))}
    IN  SubSeq(s, 1, CHOOSE n \in fits : \A m \in fits : m <= n)

\* The number a string of digits with at most one '.' stands for, in
\* thousandths (its decimals beyond the third dropped).
Thousandths(s) ==
    LET dot      == FirstDot(s)
        whole    == IF dot = 0 THEN s ELSE SubSeq(s, 1, dot - 1)
        decimals == IF dot = 0 THEN <<>> ELSE SubSeq(s, dot + 1, Len(s))
        kept     == SubSeq(decimals, 1,
                           IF Len(decimals) > FracDigits
                           THEN FracDigits ELSE Len(decimals))
    IN  DigitsNumber(whole \o kept) * 10 ^ (FracDigits - Len(kept))

\* The speed in knots that field 7 stands for, in thousandths: the number
\* it starts with, 0 when it is empty or starts with no number.
SpeedKnots(s) == Thousandths(NumericStart(SentenceField(s, 7)))

\* C19: the speed of an accepted sentence is k * 0.514444, k being the
\* number in field 7, or 0 when field 7 is empty or cannot be read as a
\* number; and a sentence that passes the checks of the other fields is
\* accepted whatever field 7 holds.
C19_SpeedIsKnotsTimesFactor ==
    fn = "parse_gprmc" =>
        /\ ret.ret => ret.out.speed_mps = SpeedKnots(line) * kKnotsToMps
        /\ (ret.ret /\ ~LeadsNumber(SentenceField(line, 7)))
               => ret.out.speed_mps = 0
        /\ AllChecksPass(line) => ret.ret

\* A sentence with 2.5 knots (2500 thousandths) gave 2.5 * 0.514444 m/s.
C19_Witness ==
    /\ Accepted
    /\ SentenceField(line, 7) = Chars("2.5")
    /\ ret.out.speed_mps = 2500 * kKnotsToMps

\* ------------------------------------------------------------------------
\* Properties of nmea_to_decimal (SpecCoord)
\* ------------------------------------------------------------------------

\* The digits of the minute part after its '.', which is its third
\* character.
MinuteDecimals(raw) == SubSeq(MinutePart(raw), 4, Len(MinutePart(raw)))

\* The coordinate is a number of the form D..DMM.m..m with at least one
\* degree digit and at most FracDigits decimals.
PlainCoordinate(raw) ==
    /\ FirstDot(raw) >= 4
    /\ AllDigits(SubSeq(raw, 1, FirstDot(raw) - 1))
    /\ AllDigits(MinuteDecimals(raw))
    /\ Len(MinuteDecimals(raw)) <= FracDigits

\* The minute part in thousandths of a minute.
MinuteThousandths(raw) ==
    DigitsNumber(SubSeq(MinutePart(raw), 1, 2) \o MinuteDecimals(raw))
        * 10 ^ (FracDigits - Len(MinuteDecimals(raw)))

\* One degree in the unit of the model's latitudes and longitudes.
UnitsPerDegree == kMinutesPerDegree * DoubleScale * UnitsPerMilliMinute

\* degrees + minutes / 60, in that unit.
DegreesPlusMinutes(raw) ==
    DigitsNumber(DegreePart(raw)) * UnitsPerDegree
    + MinuteThousandths(raw)
          * (UnitsPerDegree \div (kMinutesPerDegree * DoubleScale))

\* C15: for a coordinate whose first '.' is at index d, the conversion
\* gives degrees + minutes / 60 with the degrees read from the characters
\* before index d - 2 and the minutes from index d - 2 on, negated exactly
\* when the hemisphere is 'S' or 'W'.
C15_DegreesPlusMinutesOver60 ==
    (fn = "nmea_to_decimal" /\ PlainCoordinate(line)) =>
        /\ ~ret.nan
        /\ ret.value = IF hem \in {"S", "W"}
                       THEN 0 - DegreesPlusMinutes(line)
                       ELSE DegreesPlusMinutes(line)

\* "01131.000" west was converted to -(11 + 31/60) degrees.
C15_Witness ==
    /\ fn = "nmea_to_decimal"
    /\ line = Chars("01131.000")
    /\ hem = "W"
    /\ ~ret.nan
    /\ ret.value * 60 = 0 - (11 * 60 + 31) * UnitsPerDegree

\* ------------------------------------------------------------------------
\* Properties of dedup_last_write_wins on parsed records (SpecChrono)
\* ------------------------------------------------------------------------

\* The time of day of a timestamp hhmmss[.sss] as the number it reads as,
\* in thousandths: of two times of one day the earlier has the smaller
\* number.
TimeOfDay(timestamp) == Thousandths(timestamp)

\* C20: dedup_last_write_wins returns the records the parser has produced
\* in chronological order of their time of day.
C20_ResultChronological ==
    called = "dedup_last_write_wins" =>
        \A i, j \in 1..Len(result) :
            i < j => TimeOfDay(result[i].timestamp)
                         <= TimeOfDay(result[j].timestamp)


\* ------------------------------------------------------------------------
\* Properties of build_google_maps_url (SpecUrl)
\* ------------------------------------------------------------------------

\* The URL starts with the literal prefix.
UrlPrefix == Chars("https://www.google.com/maps/dir")

HasUrlPrefix(u) ==
    /\ Len(u) >= Len(UrlPrefix)
    /\ SubSeq(u, 1, Len(UrlPrefix)) = UrlPrefix

\* What follows the prefix, and where its '/' characters stand.
AfterPrefix(u) == SubSeq(u, Len(UrlPrefix) + 1, Len(u))

Slashes(t) == {i \in 1..Len(t) : t[i] = "/"}

\* The k-th segment of t, without its '/': from after the k-th '/' up to
\* the next '/' or the end.
UrlSegment(t, k) ==
    LET from == CHOOSE i \in Slashes(t) :
                    Cardinality({j \in Slashes(t) : j <= i}) = k
        later == {j \in Slashes(t) : j > from}
        to   == IF later = {} THEN Len(t)
                ELSE (CHOOSE j \in later : \A m \in later : j <= m) - 1
    IN  SubSeq(t, from + 1, to)

\* A number written with exactly six decimal places: an optional '-', at
\* least one digit, a '.', and six digits.
SixDecimals(w) ==
    LET body == IF Len(w) > 0 /\ w[1] = "-" THEN Tail(w) ELSE w
    IN  /\ Len(body) >= 8
        /\ body[Len(body) - 6] = "."
        /\ AllDigits(SubSeq(body, 1, Len(body) - 7))
        /\ AllDigits(SubSeq(body, Len(body) - 5, Len(body)))

\* The millionths such a number stands for, without its sign.
RECURSIVE MillionthsOf(_)
MillionthsOf(body) ==
    IF Len(body) = 0 THEN 0
    ELSE IF body[Len(body)] = "." THEN MillionthsOf(SubSeq(body, 1, Len(body) - 1))
    ELSE 10 * MillionthsOf(SubSeq(body, 1, Len(body) - 1)) + DigitOf(body[Len(body)])

\* w is the coordinate (in units of 1/300000 degree, 10/3 of a millionth)
\* to six places: it has six decimals, the sign of the coordinate, and is
\* no further than half a millionth of a degree from it.
RendersCoordinate(w, coordinate) ==
    /\ SixDecimals(w)
    /\ (w[1] = "-") <=> (coordinate < 0)
    /\ LET body == IF w[1] = "-" THEN Tail(w) ELSE w
           gap  == 3 * MillionthsOf(body) - 10 * fabs(coordinate)
       IN  2 * fabs(gap) <= 3

\* seg is "lat,lon" for the record.
RendersPoint(seg, rec) ==
    \E c \in 1..Len(seg) :
        /\ seg[c] = ","
        /\ RendersCoordinate(SubSeq(seg, 1, c - 1), rec.latitude)
        /\ RendersCoordinate(SubSeq(seg, c + 1, Len(seg)), rec.longitude)

\* C21: build_google_maps_url returns the empty string for an empty route,
\* and for a route of n >= 1 records the literal prefix followed by exactly
\* n segments "/lat,lon", one per record in route order, each coordinate
\* with exactly six decimal places.
C21_UrlIsPrefixAndOneSegmentPerRecord ==
    fn = "build_google_maps_url" =>
        IF Len(records) = 0 THEN ret = <<>>
        ELSE /\ HasUrlPrefix(ret)
             /\ LET rest == AfterPrefix(ret)
                IN  /\ Len(rest) > 0 /\ rest[1] = "/"
                    /\ Cardinality(Slashes(rest)) = Len(records)
                    /\ \A k \in 1..Len(records) :
                           RendersPoint(UrlSegment(rest, k), records[k])

\* A route of three points, with a negative and a rounded coordinate, has
\* been turned into a URL.
C21_Witness ==
    /\ fn = "build_google_maps_url"
    /\ Len(records) = 3
    /\ records[1].latitude = 14435191
    /\ records[2].latitude = -1
    /\ records[3].longitude = -54000000
    /\ Len(ret) > Len(UrlPrefix)

\* ------------------------------------------------------------------------
\* Properties of the whole run (Spec)
\* ------------------------------------------------------------------------

\* main has returned 0: the files were read and the stages ran.
RunComplete == pc = "done" /\ exit_code = 0

\* The lines counted that were not counted as a failure of any gate.
ValidLines == lines_total - (checksum_fail + not_relevant + parse_fail)

\* C22: when no line read was valid (no line at all, or every line failed
\* the checksum, the classification or the parse), the record list, the
\* route and the URL are empty and main returns 0; when exactly one line was
\* valid, the route has exactly one point and the URL exactly one
\* "/lat,lon" segment, that of the record.
C22_EmptyOrSinglePointEndToEnd ==
    RunComplete =>
        /\ ValidLines = 0 =>
               /\ all_records = <<>>
               /\ deduped = <<>>
               /\ route = <<>>
               /\ url = <<>>
               /\ build_google_maps_url(route) = <<>>
        /\ ValidLines = 1 =>
               /\ Len(all_records) = 1
               /\ route = all_records
               /\ HasUrlPrefix(url)
               /\ LET rest == AfterPrefix(url)
                  IN  /\ Len(rest) > 0 /\ rest[1] = "/"
                      /\ Cardinality(Slashes(rest)) = 1
                      /\ RendersPoint(UrlSegment(rest, 1), all_records[1])

\* A run over three lines of which one is valid has ended with a URL.
C22_Witness ==
    /\ RunComplete
    /\ lines_total = 3
    /\ checksum_fail = 1
    /\ not_relevant = 1
    /\ ValidLines = 1
    /\ Len(url) > 0

\* A run in which every line failed has ended.
C22_WitnessEmpty ==
    /\ RunComplete
    /\ lines_total = 3
    /\ ValidLines = 0
    /\ url = <<>>

\* C24: the gates run in a fixed order: the classifier is consulted only
\* for a line whose verify_checksum result is Ok, and parse_gprmc is called
\* only for a line that is Ok and not classified as unsupported; so a step
\* that adds a record read a line that passed the checksum, and a line
\* with an unsupported identifier whose checksum mismatches is counted as a
\* checksum failure and not as not-relevant.
C24_GatesInFixedOrder ==
    /\ []((nr_result # "none" => cs_result = "kOk")
          /\ (parse_ret # "none" => (cs_result = "kOk" /\ nr_result = "false")))
    /\ [][ /\ RecordsDelta # 0
               => (LineCounted /\ cs_result' = "kOk" /\ nr_result' = "false"
                   /\ parse_ret' = "true")
           /\ (LineCounted /\ HasUnsupportedId(line') /\ cs_result' = "kMismatch")
               => (ChecksumFailDelta = 1 /\ NotRelevantDelta = 0
                   /\ nr_result' = "none" /\ parse_ret' = "none") ]_vars

\* A $GPGGA line with a wrong checksum has been read after a fix: it was
\* counted as a checksum failure and the classifier was not consulted.
C24_Witness ==
    /\ pc = "getline"
    /\ HasUnsupportedId(line)
    /\ cs_result = "kMismatch"
    /\ nr_result = "none"
    /\ checksum_fail = 1
    /\ not_relevant = 0
    /\ Len(all_records) = 1

\* The first file is being read and has given the only record so far.
FirstFileGaveOne == pc = "getline" /\ argi = 1 /\ Len(all_records) = 1

\* The second file is being read and has given no record yet.
SecondFileOpened == pc = "getline" /\ argi = 2 /\ Len(all_records) = 1

\* The second file has given a record with the timestamp of the first
\* file's record and other values.
SecondFileGaveSameTime ==
    /\ pc = "getline"
    /\ argi = 2
    /\ Len(all_records) = 2
    /\ all_records[1].timestamp = all_records[2].timestamp
    /\ all_records[1] # all_records[2]

\* C29: the records of all files are merged into one list in argument
\* order before deduplication: all_records only grows at its end, file
\* after file, and the dedup stages run once, after the last file, on that
\* list, keeping for every timestamp the last record of the list; so when
\* the first file gave a record and the second file a record with the same
\* timestamp, and nothing else was parsed, the deduplicated output is the
\* second file's record.
C29_LaterFileWins ==
    /\ [][ /\ Len(all_records') >= Len(all_records)
           /\ SubSeq(all_records', 1, Len(all_records)) = all_records
           /\ argi' >= argi
           /\ (deduped' # deduped \/ route' # route)
                  => (pc = "open" /\ argi >= argc /\ pc' = "done") ]_vars
    /\ [](RunComplete =>
            \A t \in TimestampsOf(all_records) :
                /\ \E k \in 1..Len(deduped) : deduped[k].timestamp = t
                /\ \A k \in 1..Len(deduped) :
                       deduped[k].timestamp = t
                           => deduped[k] = all_records[LastIndexOf(all_records, t)])
    /\ [](FirstFileGaveOne =>
            [](SecondFileOpened =>
                 [](SecondFileGaveSameTime =>
                      []((RunComplete /\ Len(all_records) = 2)
                             => deduped = <<all_records[2]>>))))

\* A run over two files has ended: two records with one timestamp and
\* different latitudes were parsed and the second one is the output.
C29_Witness ==
    /\ RunComplete
    /\ argc = 3
    /\ Len(all_records) = 2
    /\ all_records[1].timestamp = all_records[2].timestamp
    /\ all_records[1].latitude # all_records[2].latitude
    /\ deduped = <<all_records[2]>>
    /\ route = deduped

\* ------------------------------------------------------------------------
\* Properties of the whole run to its end (SpecFair)
\* ------------------------------------------------------------------------

\* Some line read so far failed a gate.
SomeLineFailed == checksum_fail + not_relevant + parse_fail > 0

\* C23: no line and no file that fails ends the run: main returns only
\* from the test of argc or after the last file, a step that reads a line
\* leaves main in the while loop, a file that does not open leaves it in
\* the for loop at the next file, and every run ends; once a line has
\* failed, the run still reaches the end of stage 3 and returns 0.
C23_FailuresNonFatalAndRunEnds ==
    /\ [][ /\ pc' = "done" => (pc = "start" \/ (pc = "open" /\ argi >= argc))
           /\ (pc = "getline" /\ pc' # "getline")
                  => (pc' = "open" /\ argi' = argi + 1 /\ line' = line)
           /\ (pc = "open" /\ pc' = "open") => argi' = argi + 1 ]_vars
    /\ <>(pc = "done")
    /\ SomeLineFailed ~> RunComplete

\* A run with each kind of failure has ended with the summary.
C23_Witness ==
    /\ RunComplete
    /\ argc = MaxFiles + 1
    /\ checksum_fail >= 1
    /\ not_relevant >= 1
    /\ parse_fail >= 1

\* ------------------------------------------------------------------------
\* Properties of the field splitting of parse_gprmc (SpecFields)
\* ------------------------------------------------------------------------

\* The sentence without what stands from its last '*' on.
BeforeLastStar(s) == IF HasStar(s) THEN SubSeq(s, 1, LastStar(s) - 1) ELSE s

CommasIn(s) == Cardinality({i \in 1..Len(s) : s[i] = ","})

\* The fields written one after the other with a ',' between them.
RECURSIVE JoinedWithCommas(_)
JoinedWithCommas(fs) ==
    IF Len(fs) = 0 THEN <<>>
    ELSE IF Len(fs) = 1 THEN fs[1]
    ELSE fs[1] \o <<",">> \o JoinedWithCommas(Tail(fs))

\* C25: the fields parse_gprmc works on are those of the sentence without
\* everything from its last '*' on: nothing of the tail is in the last
\* field, empty fields are kept, and there is one field more than there
\* are ',' in that body.
C25_TailStrippedEmptyFieldsKept ==
    fn = "gprmc_fields" =>
        /\ Len(ret) = CommasIn(BeforeLastStar(line)) + 1
        /\ \A k \in 1..Len(ret) : CommasIn(ret[k]) = 0
        /\ JoinedWithCommas(ret) = BeforeLastStar(line)

\* An eight-field sentence that ends in ",24*42" has been split: the speed
\* field is "24".
C25_Witness ==
    /\ fn = "gprmc_fields"
    /\ line = Chars("$GPRMC,1,A,4807.038,N,01131.000,E,24*42")
    /\ Len(ret) = 8
    /\ ret[8] = <<"2", "4">>

\* A sentence with two empty fields before its tail has been split.
C25_WitnessEmptyFields ==
    /\ fn = "gprmc_fields"
    /\ line = Chars(",,*42")
    /\ ret = << <<>>, <<>>, <<>> >>

\* ------------------------------------------------------------------------
\* Properties of the scan of dedup_spatial (SpecScan)
\* ------------------------------------------------------------------------

\* This step examined one record of the input.
Examined == called = "scan" /\ scan' = scan + 1

\* The record kept last.
LastKept == result[Len(result)]

\* a and b are at most e apart.
Within(a, b, e) == a - b <= e /\ b - a <= e

\* Every record of recs is at most e from the record before it, in both
\* axes.
SlowDrift(recs, e) ==
    \A i \in 2..Len(recs) :
        /\ Within(recs[i].latitude, recs[i - 1].latitude, e)
        /\ Within(recs[i].longitude, recs[i - 1].longitude, e)

\* C26: the reference of dedup_spatial is the record kept last: a record
\* the scan drops is within epsilon of the record kept last in latitude and
\* in longitude, and a record further than epsilon from it in some axis is
\* kept at once, whatever the input record before it was; so of a slowly
\* drifting list (two or more records, each within epsilon of the one
\* before it) whose
\* last record is further than epsilon from the first, more than the
\* first record is kept.
C26_ReferenceIsLastKept ==
    /\ [][Examined =>
            /\ result' = result
                  => /\ Within(records[scan].latitude, LastKept.latitude, epsilon)
                     /\ Within(records[scan].longitude, LastKept.longitude, epsilon)
            /\ Far(records[scan], LastKept, epsilon)
                  => result' = Append(result, records[scan]) ]_vars
    /\ []((called = "dedup_spatial" /\ Len(records) >= 2
             /\ SlowDrift(records, epsilon)
             /\ Far(records[Len(records)], records[1], epsilon))
          => Len(result) >= 2)

\* With epsilon 1, a list drifting by one step per record was scanned: the
\* second record was dropped and the third, one step from the second and
\* two from the first, was kept.
C26_Witness ==
    /\ called = "dedup_spatial"
    /\ epsilon = 1
    /\ Len(records) = 3
    /\ records[1].latitude = 0 /\ records[1].longitude = 0
    /\ records[2].latitude = 1 /\ records[2].longitude = 0
    /\ records[3].latitude = 2 /\ records[3].longitude = 0
    /\ SlowDrift(records, epsilon)
    /\ result = <<records[1], records[3]>>

\* C27: after every step of the scan, what dedup_spatial has kept is an
\* order-preserving subsequence of the input examined so far that starts
\* with the first input record, and every two adjacent kept records differ
\* by strictly more than epsilon in latitude or in longitude; what it
\* returns is such a subsequence of the whole input.
C27_KeptIsSpacedSubsequence ==
    (called \in {"scan", "dedup_spatial"} /\ Len(records) > 0) =>
        LET examined == IF called = "scan" THEN scan - 1 ELSE Len(records) IN
        /\ \E K \in SUBSET (1..examined) :
               /\ 1 \in K
               /\ result = Pick(records, K)
        /\ result[1] = records[1]
        /\ \A k \in 1..(Len(result) - 1) : Far(result[k + 1], result[k], epsilon)
        /\ called = "dedup_spatial" => result = dedup_spatial(records, epsilon)

\* The scan has examined two of three records and kept both.
C27_Witness ==
    /\ called = "scan"
    /\ Len(records) = 3
    /\ scan = 3
    /\ epsilon = 1
    /\ result = <<records[1], records[2]>>
    /\ records[1] # records[2]

\* ------------------------------------------------------------------------
\* Properties of the two dedup stages of main (SpecStages)
\* ------------------------------------------------------------------------

\* C28: after both dedup stages the timestamps of the route are strictly
\* increasing as strings (no two route points share one), the route is no
\* longer than the temporally deduplicated list, which is no longer than
\* the list of parsed records, and the route is empty only if no record
\* was parsed.
C28_RouteOrderedAndNoLonger ==
    RunComplete =>
        /\ \A k \in 1..(Len(route) - 1) :
               LexLess(route[k].timestamp, route[k + 1].timestamp)
        /\ Len(route) <= Len(deduped)
        /\ Len(deduped) <= Len(all_records)
        /\ route = <<>> => all_records = <<>>

\* Three records were parsed, two of them with one timestamp; the second
\* stage dropped one of the two that were left.
C28_Witness ==
    /\ RunComplete
    /\ Len(all_records) = 3
    /\ Len(deduped) = 2
    /\ Len(route) = 1
    /\ all_records[1].timestamp = <<"2">>

\* ------------------------------------------------------------------------
\* Properties of the two programs side by side (SpecBoth)
\* ------------------------------------------------------------------------

\* C30: on every sequence of input lines the single-file program and the
\* modular program have identical counters (and identical lists of parsed
\* records) after every line, and identical deduplicated lists and final
\* routes at the end.
C30_MonolithAndModularAgree ==
    /\ mono.lines_total = lines_total
    /\ mono.checksum_fail = checksum_fail
    /\ mono.not_relevant = not_relevant
    /\ mono.parse_fail = parse_fail
    /\ Len(mono.all_records) = Len(all_records)
    /\ \A k \in 1..Len(all_records) :
           /\ mono.all_records[k].timestamp = all_records[k].timestamp
           /\ mono.all_records[k].latitude = all_records[k].latitude
           /\ mono.all_records[k].longitude = all_records[k].longitude
           /\ mono.all_records[k].speed_mps = all_records[k].speed_mps
    /\ RunComplete =>
           /\ mono.deduped = deduped
           /\ mono.route = route

\* Both programs have read a line of each outcome but a checksum failure
\* and have ended with a route of one point.
C30_Witness ==
    /\ RunComplete
    /\ lines_total = 3
    /\ parse_fail = 1
    /\ not_relevant = 1
    /\ Len(mono.route) = 1
    /\ Len(route) = 1

=============================================================================
